---- MODULE Spec2Model ----
(***************************************************************************)
(* Model of the eywa knowledge base: the three stores (LanceDB vector      *)
(* index, Tantivy BM25 keyword index, SQLite content store), the           *)
(* coordinator facade of src/lib.rs with the legacy Ingester of            *)
(* src/ingest.rs, the HTTP handlers of src/server/routes.rs with the       *)
(* batch pipeline of src/pipeline/mod.rs, and the job-queue worker of      *)
(* src/server/worker.rs.                                                   *)
(*                                                                         *)
(* Every store call is one step.  A store call that can return Err has a   *)
(* failing branch; the handler then returns as its `?` / `return` does.    *)
(***************************************************************************)
EXTENDS Integers, Sequences, FiniteSets, TLC

VARIABLES
    lanceDocs,      \* rows of table documents_v2 on disk
    lanceChunks,    \* rows of table chunks_v2 on disk
    docsExists,     \* documents_v2 exists on disk
    chunksExists,   \* chunks_v2 exists on disk
    docs_table,     \* VectorDB.docs_table is Some
    chunks_table,   \* VectorDB.chunks_table is Some
    bm25,           \* postings of the keyword index
    contentDocs,    \* rows of the content store's documents table
    contentChunks,  \* rows of the content store's chunks table
    writer,         \* holder of db: RwLock<VectorDB> in write mode, or None
    readers,        \* holders of db: RwLock<VectorDB> in read mode
    task,           \* per caller: the call in progress and its locals
    last,           \* the response of the call that returned last
    nextId,         \* next fresh document id (uuid::Uuid::new_v4)
    lastIngest,     \* history: input of the last successful ingest, no delete since
    wrote,          \* history: every chunk id ever inserted into chunks_v2
    fails,          \* store calls that have failed so far
    qdocs,          \* job queue: the queued documents, each with its status
    qmutex,         \* holder of the job-queue mutex, or None
    wpc,            \* per worker: position in run_queue_worker
    wdoc,           \* per worker: the document it holds (0 = none)
    handed,         \* history: how often get_next_pending returned each document
    vectors,        \* the embedding column of chunks_v2, one vector per row
    inserted,       \* the last call of VectorDB::insert_chunks and its result
    arg,            \* the argument of the function under study
    ret,            \* <<its result>> once it has returned
    marker,         \* the file <data_dir>/.reindex_in_progress exists
    config,         \* embedding model of the saved configuration, or None
    reindex,        \* run_init_command: position, locals and what started last
    coord           \* the locks of the coordinator and of the server: holders, waiters, callers

storeVars == <<lanceDocs, lanceChunks, docsExists, chunksExists, docs_table,
               chunks_table, bm25, contentDocs, contentChunks>>
lockVars  == <<writer, readers>>
queueVars == <<qdocs, qmutex, wpc, wdoc, handed>>
initVars  == <<marker, config, reindex, coord>>
extVars   == <<vectors, inserted, arg, ret, marker, config, reindex, coord>>
vars == <<lanceDocs, lanceChunks, docsExists, chunksExists, docs_table,
          chunks_table, bm25, contentDocs, contentChunks, writer, readers,
          task, last, nextId, lastIngest, wrote, fails, qdocs, qmutex, wpc,
          wdoc, handed, vectors, inserted, arg, ret, marker, config, reindex,
          coord>>

----------------------------------------------------------------------------
(* Bounds and program constants *)

\* Documents ever ingested in a run; also the longest request.
MaxDocs == 2

\* Store calls that fail in a run.
MaxFailures == 1

\* Documents ever queued in a run.
MaxQueued == 2

\* src/ingest.rs: const BATCH_SIZE
BATCH_SIZE == 32

None == "none"

\* Concurrent callers of the coordinator.  Callers are interchangeable and a
\* call in write mode excludes every other call, so the calls that take the
\* lock in write mode are issued by one of them.
Clients == {"c1", "c2"}

Exclusive == {"c1"}

\* Tasks running run_queue_worker.  run_server spawns one; the queue's
\* get_next_pending is specified for concurrent workers, so two are run.
Workers == {"w1", "w2"}

Sources == {"A", "B"}

Stores == {"vector", "keyword", "content"}

\* The document contents offered for ingestion.
Contents == {"dup", "big"}

\* md5 digests of the chunks the chunker cuts a content into, in order.
\* "dup" repeats one chunk text; "big" is one chunk longer than an
\* embedding batch.
ChunkHashes(content) ==
    CASE content = "dup" -> <<1, 2, 2>>
      [] content = "big" -> [k \in 1..(BATCH_SIZE + 1) |-> 10 + k]

NumChunks(content) == Len(ChunkHashes(content))

\* Vec<DocumentInput> of one request.
Inputs == UNION {[1..n -> Contents] : n \in 1..MaxDocs}

RECURSIVE SumChunks(_, _)
SumChunks(input, n) ==
    IF n = 0 THEN 0 ELSE NumChunks(input[n]) + SumChunks(input, n - 1)

TotalChunks(input) == SumChunks(input, Len(input))

----------------------------------------------------------------------------
(* The stores *)

\* What the VectorDB methods see: `match &self.chunks_table { None => ... }`.
VisibleChunks == IF chunks_table THEN lanceChunks ELSE {}

VisibleDocs == IF docs_table THEN lanceDocs ELSE {}

chunk_exists_never(hash) == FALSE

chunk_exists(hash) == \E r \in VisibleChunks : r.hash = hash

\* get_or_create_*_table: the cached handle, else create_empty_table, which
\* fails when the table is already on disk.
CanOpenDocs == docs_table \/ ~docsExists

CanOpenChunks == chunks_table \/ ~chunksExists

ChunkRecord(d, s, k) ==
    [id |-> <<d.id, k>>, doc |-> d.id, src |-> s, hash |-> ChunkHashes(d.content)[k]]

ContentChunkIds == {r.id : r \in contentChunks}

list_sources == {r.src : r \in VisibleDocs}

----------------------------------------------------------------------------
(* db: RwLock<VectorDB> *)

DbWrite(c) ==
    /\ writer = None
    /\ readers = {}
    /\ writer' = c
    /\ readers' = readers

DbRead(c) ==
    /\ writer = None
    /\ readers' = readers \cup {c}
    /\ writer' = writer

DbRelease(c) ==
    /\ writer' = IF writer = c THEN None ELSE writer
    /\ readers' = readers \ {c}

\* A store call returns Err.
Fail == fails < MaxFailures /\ fails' = fails + 1

NoFail == fails' = fails

IngestLockShared(c) == DbRead(c)

IngestLock(c) == DbWrite(c)

----------------------------------------------------------------------------
(* Callers *)

\* The locals of a call in progress.
Idle == [pc |-> "idle", op |-> "-", src |-> "-", docs |-> <<>>, i |-> 0, b |-> 0,
         ids |-> {}, target |-> 0, created |-> 0, skipped |-> 0,
         attempted |-> {}, seen |-> {}]

\* A response, and what the caller can observe of the stores when it gets it.
NoResponse == [op |-> "-", res |-> "-", created |-> 0, skipped |-> 0, total |-> 0,
               again |-> FALSE, attempted |-> {}, failed |-> {}, left |-> {},
               seen |-> {}, held |-> 0, removed |-> 0, found |-> FALSE]

Ok(t) == [NoResponse EXCEPT !.op = t.op, !.res = "ok", !.attempted = t.attempted]

Err(t, store) ==
    [NoResponse EXCEPT !.op = t.op, !.res = "err", !.attempted = t.attempted,
                       !.failed = {store}]

\* return: the locals are dropped, the lock guard too.
Return(c, r) ==
    /\ task' = [task EXCEPT ![c] = Idle]
    /\ last' = r
    /\ DbRelease(c)

\* The caller c is at pc; the response of the call that returned last has
\* been taken by its caller.
At(c, pc) == last = NoResponse /\ task[c].pc = pc

\* The caller takes the response.
Deliver ==
    /\ UNCHANGED extVars
    /\ last # NoResponse
    /\ last' = NoResponse
    /\ UNCHANGED <<storeVars, lockVars, task, nextId, lastIngest, wrote, fails,
                   queueVars>>

\* The call goes on to its next store call.
Goto(c, t) ==
    /\ task' = [task EXCEPT ![c] = t]
    /\ UNCHANGED <<last, writer, readers>>

\* No call of insert_chunks yet.
NoInsert == [calls |-> 0, chunks |-> 0, lens |-> <<>>, res |-> "-", rows |-> 0]

\* Callers of the Eywa facade, and the tasks of the server: the queue worker
\* and a request handler.
Callers == {"f1", "f2"}

ServerTasks == {"worker", "http"}

Threads == Callers \cup ServerTasks

\* Eywa.embedder, Eywa.db and Eywa.content; AppState.db and AppState.job_queue.
RwLocks == {"embedder", "db", "state_db"}

Mutexes == {"content", "job_queue"}

Locks == RwLocks \cup Mutexes

\* No operation in progress.
NoOp == [op |-> "-", k |-> 0, waiting |-> FALSE]

\* No process yet; nobody is in an operation, holds a lock or waits for one.
NoCoord == [process |-> "-",
            pc |-> [t \in Threads |-> NoOp],
            held |-> [l \in Locks |-> {}],
            queue |-> [l \in Locks |-> <<>>]]

\* No run of run_init_command yet.
NoReindex == [pc |-> "idle", documents |-> <<>>, i |-> 1, started |-> "-"]

\* The stores are empty, nobody holds a lock, no call is in progress.
Start ==
    /\ lanceDocs = {}
    /\ lanceChunks = {}
    /\ docsExists = FALSE
    /\ chunksExists = FALSE
    /\ docs_table = FALSE
    /\ chunks_table = FALSE
    /\ bm25 = {}
    /\ contentDocs = {}
    /\ contentChunks = {}
    /\ writer = None
    /\ readers = {}
    /\ task = [c \in Clients |-> Idle]
    /\ last = NoResponse
    /\ nextId = 1
    /\ lastIngest = <<>>
    /\ wrote = {}
    /\ fails = 0
    /\ qdocs = <<>>
    /\ qmutex = None
    /\ wpc = [w \in Workers |-> "loop"]
    /\ wdoc = [w \in Workers |-> 0]
    /\ handed = <<>>
    /\ vectors = <<>>
    /\ inserted = NoInsert
    /\ marker = FALSE
    /\ config = None
    /\ reindex = NoReindex
    /\ coord = NoCoord

Init ==
    /\ Start
    /\ arg = <<>>
    /\ ret = <<>>

----------------------------------------------------------------------------
(* Eywa::ingest_documents -> Ingester::ingest_documents (legacy ingester) *)

InputOf(docs) == [k \in 1..Len(docs) |-> docs[k].content]

\* let mut db = self.db.write().await; the documents get their uuids.
IngestStart(c, s, input) ==
    /\ UNCHANGED extVars
    /\ At(c, "idle")
    /\ nextId + Len(input) - 1 <= MaxDocs
    /\ IngestLock(c)
    /\ task' = [task EXCEPT ![c] =
                 [Idle EXCEPT !.pc = "li_content", !.op = "ingest", !.src = s, !.i = 1,
                              !.docs = [k \in 1..Len(input) |->
                                          [id |-> nextId + k - 1, content |-> input[k]]]]]
    /\ nextId' = nextId + Len(input)
    /\ UNCHANGED <<storeVars, last, lastIngest, wrote, fails, queueVars>>

\* Phase 1, one document: insert_document, then insert_chunks of all its chunks.
IngestContent(c) ==
    /\ UNCHANGED extVars
    /\ At(c, "li_content")
    /\ LET t == task[c]
           d == t.docs[t.i]
           row == [id |-> d.id, src |-> t.src]
           rows == {[id |-> <<d.id, k>>, doc |-> d.id] : k \in 1..NumChunks(d.content)}
       IN  \/ /\ Fail
              /\ Return(c, Err(t, "content"))
              /\ lastIngest' = <<>>
              /\ \/ UNCHANGED <<contentDocs, contentChunks>>
                 \/ /\ contentDocs' = contentDocs \cup {row}
                    /\ UNCHANGED contentChunks
           \/ /\ NoFail
              /\ contentDocs' = contentDocs \cup {row}
              /\ contentChunks' = contentChunks \cup rows
              /\ Goto(c, IF t.i < Len(t.docs)
                         THEN [t EXCEPT !.i = t.i + 1]
                         ELSE [t EXCEPT !.pc = "li_vecdoc", !.i = 1])
              /\ UNCHANGED lastIngest
    /\ UNCHANGED <<lanceDocs, lanceChunks, docsExists, chunksExists, docs_table,
                   chunks_table, bm25, nextId, wrote, queueVars>>

\* Phase 2, one document: db.insert_document with chunk_count = doc.chunks.len().
\* get_or_create_docs_table fails when the handle is gone and the table is not.
IngestVecDoc(c) ==
    /\ UNCHANGED extVars
    /\ At(c, "li_vecdoc")
    /\ LET t == task[c]
           d == t.docs[t.i]
       IN  \/ /\ IF CanOpenDocs THEN Fail ELSE NoFail
              /\ Return(c, Err(t, "vector"))
              /\ lastIngest' = <<>>
              /\ UNCHANGED <<lanceDocs, docsExists, docs_table>>
           \/ /\ NoFail
              /\ CanOpenDocs
              /\ lanceDocs' = lanceDocs \cup
                    {[id |-> d.id, src |-> t.src, chunk_count |-> NumChunks(d.content)]}
              /\ docsExists' = TRUE
              /\ docs_table' = TRUE
              /\ Goto(c, [t EXCEPT !.pc = "li_batch", !.b = 1])
              /\ UNCHANGED lastIngest
    /\ UNCHANGED <<lanceChunks, chunksExists, chunks_table, bm25, contentDocs,
                   contentChunks, nextId, wrote, queueVars>>

NumBatches(n) == (n + BATCH_SIZE - 1) \div BATCH_SIZE

BatchIdx(n, b) ==
    {k \in 1..n : (b - 1) * BATCH_SIZE < k /\ k <= b * BATCH_SIZE}

\* Phase 2, one slice of doc.chunks.chunks(BATCH_SIZE): skip the chunks whose
\* hash chunk_exists, embed the rest, insert_chunks, count.  After the last
\* slice of the last document: Ok(IngestResponse).
IngestBatch(c) ==
    /\ UNCHANGED extVars
    /\ At(c, "li_batch")
    /\ LET t == task[c]
           d == t.docs[t.i]
           n == NumChunks(d.content)
           idx == BatchIdx(n, t.b)
           new == {k \in idx : ~chunk_exists(ChunkHashes(d.content)[k])}
           t2 == [t EXCEPT !.created = t.created + Cardinality(new),
                           !.skipped = t.skipped + Cardinality(idx \ new)]
       IN  \/ /\ IF new = {} \/ CanOpenChunks THEN Fail ELSE NoFail
              /\ Return(c, Err(t, "vector"))
              /\ lastIngest' = <<>>
              /\ UNCHANGED <<lanceChunks, chunksExists, chunks_table, wrote>>
           \/ /\ NoFail
              /\ new # {} => CanOpenChunks
              /\ lanceChunks' = lanceChunks \cup {ChunkRecord(d, t.src, k) : k \in new}
              /\ chunksExists' = (chunksExists \/ new # {})
              /\ chunks_table' = (chunks_table \/ new # {})
              /\ wrote' = wrote \cup {<<d.id, k>> : k \in new}
              /\ IF t.b < NumBatches(n)
                 THEN Goto(c, [t2 EXCEPT !.b = t.b + 1]) /\ UNCHANGED lastIngest
                 ELSE IF t.i < Len(t.docs)
                 THEN /\ Goto(c, [t2 EXCEPT !.pc = "li_vecdoc", !.i = t.i + 1])
                      /\ UNCHANGED lastIngest
                 ELSE /\ Return(c, [Ok(t) EXCEPT
                                      !.created = t2.created,
                                      !.skipped = t2.skipped,
                                      !.total = TotalChunks(InputOf(t.docs)),
                                      !.again = (lastIngest = InputOf(t.docs))])
                      /\ lastIngest' = InputOf(t.docs)
    /\ UNCHANGED <<lanceDocs, docsExists, docs_table, bm25, contentDocs,
                   contentChunks, nextId, queueVars>>

----------------------------------------------------------------------------
(* Eywa::search *)

\* let db = self.db.read().await; db.search(..).await?: the vector candidates.
SearchStart(c) ==
    /\ UNCHANGED extVars
    /\ At(c, "idle")
    /\ LET t == [Idle EXCEPT !.op = "search"]
       IN  \/ /\ writer = None
              /\ Fail
              /\ Return(c, Err(t, "vector"))
           \/ /\ NoFail
              /\ DbRead(c)
              /\ task' = [task EXCEPT ![c] =
                           [t EXCEPT !.pc = "s_fetch",
                                     !.seen = {r.id : r \in VisibleChunks}]]
              /\ UNCHANGED last
    /\ UNCHANGED <<storeVars, nextId, lastIngest, wrote, queueVars>>

\* content.get_chunks and the filter_map: a candidate with no body is dropped.
SearchFetch(c) ==
    /\ UNCHANGED extVars
    /\ At(c, "s_fetch")
    /\ \/ /\ Fail
          /\ Return(c, Err(task[c], "content"))
       \/ /\ NoFail
          /\ Return(c, [Ok(task[c]) EXCEPT !.seen = task[c].seen])
    /\ UNCHANGED <<storeVars, nextId, lastIngest, wrote, queueVars>>

----------------------------------------------------------------------------
(* Eywa::delete_document; handle_delete_doc makes the same store calls *)

\* let db = self.db.read().await; VectorDB::delete_document, first
\* table.delete: documents_v2 where id = ...
DeleteDocumentStart(c, id) ==
    /\ UNCHANGED extVars
    /\ At(c, "idle")
    /\ LET t == [Idle EXCEPT !.op = "delete_document", !.target = id,
                             !.attempted = {"vector"}]
       IN  \/ /\ writer = None
              /\ docs_table
              /\ Fail
              /\ Return(c, Err(t, "vector"))
              /\ UNCHANGED <<lanceDocs, lastIngest>>
           \/ /\ NoFail
              /\ DbRead(c)
              /\ lanceDocs' = IF docs_table
                              THEN {r \in lanceDocs : r.id # id}
                              ELSE lanceDocs
              /\ lastIngest' = <<>>
              /\ task' = [task EXCEPT ![c] = [t EXCEPT !.pc = "dd_chunks"]]
              /\ UNCHANGED last
    /\ UNCHANGED <<lanceChunks, docsExists, chunksExists, docs_table, chunks_table,
                   bm25, contentDocs, contentChunks, nextId, wrote, queueVars>>

\* VectorDB::delete_document, second table.delete: chunks_v2 where document_id = ...
DeleteDocumentVecChunks(c) ==
    /\ UNCHANGED extVars
    /\ At(c, "dd_chunks")
    /\ LET t == task[c]
       IN  \/ /\ chunks_table
              /\ Fail
              /\ Return(c, Err(t, "vector"))
              /\ UNCHANGED lanceChunks
           \/ /\ NoFail
              /\ lanceChunks' = IF chunks_table
                                THEN {r \in lanceChunks : r.doc # t.target}
                                ELSE lanceChunks
              /\ Goto(c, [t EXCEPT !.pc = "dd_content"])
    /\ UNCHANGED <<lanceDocs, docsExists, chunksExists, docs_table, chunks_table,
                   bm25, contentDocs, contentChunks, nextId, lastIngest, wrote,
                   queueVars>>

\* The stores that hold a document row or a chunk of document id.
StoresHolding(id, vd, vc, kw, cd, cc) ==
    {s \in Stores :
        \/ s = "vector"  /\ ((\E r \in vd : r.id = id) \/ (\E r \in vc : r.doc = id))
        \/ s = "keyword" /\ (\E r \in kw : r.doc = id)
        \/ s = "content" /\ ((\E r \in cd : r.id = id) \/ (\E r \in cc : r.doc = id))}

\* content.delete_document, then Ok(()).
DeleteDocumentContent(c) ==
    /\ UNCHANGED extVars
    /\ At(c, "dd_content")
    /\ LET t == [task[c] EXCEPT !.attempted = @ \cup {"content"}]
           cd == {r \in contentDocs : r.id # t.target}
           cc == {r \in contentChunks : r.doc # t.target}
       IN  \/ /\ Fail
              /\ Return(c, Err(t, "content"))
              /\ UNCHANGED <<contentDocs, contentChunks>>
           \/ /\ NoFail
              /\ contentDocs' = cd
              /\ contentChunks' = cc
              /\ Return(c, [Ok(t) EXCEPT !.left =
                              StoresHolding(t.target, VisibleDocs, VisibleChunks,
                                            bm25, cd, cc)])
    /\ UNCHANGED <<lanceDocs, lanceChunks, docsExists, chunksExists, docs_table,
                   chunks_table, bm25, nextId, lastIngest, wrote, queueVars>>

----------------------------------------------------------------------------
(* Eywa::delete_source *)

\* let db = self.db.read().await; db.get_document_ids_for_source(source_id).await?
DeleteSourceStart(c, s) ==
    /\ UNCHANGED extVars
    /\ At(c, "idle")
    /\ LET t == [Idle EXCEPT !.op = "delete_source", !.src = s]
       IN  \/ /\ writer = None
              /\ docs_table
              /\ Fail
              /\ Return(c, Err(t, "vector"))
           \/ /\ NoFail
              /\ DbRead(c)
              /\ task' = [task EXCEPT ![c] =
                           [t EXCEPT !.pc = "ds_chunks",
                              !.ids = {r.id : r \in {x \in VisibleDocs : x.src = s}}]]
              /\ UNCHANGED last
    /\ UNCHANGED <<storeVars, nextId, lastIngest, wrote, queueVars>>

\* VectorDB::delete_source, first table.delete: chunks_v2 where source_id = ...
DeleteSourceVecChunks(c) ==
    /\ UNCHANGED extVars
    /\ At(c, "ds_chunks")
    /\ LET t == [task[c] EXCEPT !.attempted = @ \cup {"vector"}]
       IN  \/ /\ chunks_table
              /\ Fail
              /\ Return(c, Err(t, "vector"))
              /\ UNCHANGED <<lanceChunks, lastIngest>>
           \/ /\ NoFail
              /\ lanceChunks' = IF chunks_table
                                THEN {r \in lanceChunks : r.src # t.src}
                                ELSE lanceChunks
              /\ lastIngest' = <<>>
              /\ Goto(c, [t EXCEPT !.pc = "ds_docs"])
    /\ UNCHANGED <<lanceDocs, docsExists, chunksExists, docs_table, chunks_table,
                   bm25, contentDocs, contentChunks, nextId, wrote, queueVars>>

\* VectorDB::delete_source, second table.delete: documents_v2 where source_id = ...
DeleteSourceVecDocs(c) ==
    /\ UNCHANGED extVars
    /\ At(c, "ds_docs")
    /\ LET t == task[c]
       IN  \/ /\ docs_table
              /\ Fail
              /\ Return(c, Err(t, "vector"))
              /\ UNCHANGED lanceDocs
           \/ /\ NoFail
              /\ lanceDocs' = IF docs_table
                              THEN {r \in lanceDocs : r.src # t.src}
                              ELSE lanceDocs
              /\ Goto(c, [t EXCEPT !.pc = "ds_bm25"])
    /\ UNCHANGED <<lanceChunks, docsExists, chunksExists, docs_table, chunks_table,
                   bm25, contentDocs, contentChunks, nextId, lastIngest, wrote,
                   queueVars>>

\* self.bm25_index.delete_source(source_id)?
DeleteSourceBm25(c) ==
    /\ UNCHANGED extVars
    /\ At(c, "ds_bm25")
    /\ LET t == [task[c] EXCEPT !.attempted = @ \cup {"keyword"}]
       IN  \/ /\ Fail
              /\ Return(c, Err(t, "keyword"))
              /\ UNCHANGED bm25
           \/ /\ NoFail
              /\ bm25' = {r \in bm25 : r.src # t.src}
              /\ Goto(c, [t EXCEPT !.pc = "ds_content"])
    /\ UNCHANGED <<lanceDocs, lanceChunks, docsExists, chunksExists, docs_table,
                   chunks_table, contentDocs, contentChunks, nextId, lastIngest,
                   wrote, queueVars>>

\* The sources a caller finds through list_sources, a keyword search or a
\* hybrid search (vector candidates that have a body).
SourcesFound(cc) ==
    list_sources \cup {r.src : r \in bm25}
        \cup {r.src : r \in {x \in VisibleChunks : x.id \in {y.id : y \in cc}}}

\* content.delete_source(&doc_id_refs)?, then Ok(()).
DeleteSourceContent(c) ==
    /\ UNCHANGED extVars
    /\ At(c, "ds_content")
    /\ LET t == [task[c] EXCEPT !.attempted = @ \cup {"content"}]
           cd == {r \in contentDocs : r.id \notin t.ids}
           cc == {r \in contentChunks : r.doc \notin t.ids}
       IN  \/ /\ Fail
              /\ Return(c, Err(t, "content"))
              /\ UNCHANGED <<contentDocs, contentChunks>>
           \/ /\ NoFail
              /\ contentDocs' = cd
              /\ contentChunks' = cc
              /\ Return(c, [Ok(t) EXCEPT
                      !.held = Cardinality({r \in contentDocs : r.src = t.src}),
                      !.removed = Cardinality(contentDocs) - Cardinality(cd),
                      !.found = (t.src \in SourcesFound(cc))])
    /\ UNCHANGED <<lanceDocs, lanceChunks, docsExists, chunksExists, docs_table,
                   chunks_table, bm25, nextId, lastIngest, wrote, queueVars>>

----------------------------------------------------------------------------
(* Eywa::reset_all *)

\* let mut db = self.db.write().await; VectorDB::reset_all: for chunks_v2 and
\* then documents_v2, if the handle is Some, drop_table(..).await.ok() and the
\* handle set to None; a failed drop is discarded.
ResetStart(c) ==
    /\ UNCHANGED extVars
    /\ At(c, "idle")
    /\ DbWrite(c)
    /\ \E okChunks, okDocs \in BOOLEAN :
          LET failed == (IF okChunks THEN 0 ELSE 1) + (IF okDocs THEN 0 ELSE 1)
          IN  /\ ~okChunks => chunks_table
              /\ ~okDocs => docs_table
              /\ fails + failed <= MaxFailures
              /\ fails' = fails + failed
              /\ lanceChunks' = IF chunks_table /\ okChunks THEN {} ELSE lanceChunks
              /\ chunksExists' = (chunksExists /\ ~(chunks_table /\ okChunks))
              /\ lanceDocs' = IF docs_table /\ okDocs THEN {} ELSE lanceDocs
              /\ docsExists' = (docsExists /\ ~(docs_table /\ okDocs))
    /\ chunks_table' = FALSE
    /\ docs_table' = FALSE
    /\ lastIngest' = <<>>
    /\ task' = [task EXCEPT ![c] =
                 [Idle EXCEPT !.pc = "r_bm25", !.op = "reset_all",
                              !.attempted = {"vector"}]]
    /\ UNCHANGED <<bm25, contentDocs, contentChunks, last, nextId, wrote, queueVars>>

\* self.bm25_index.reset()?
ResetBm25(c) ==
    /\ UNCHANGED extVars
    /\ At(c, "r_bm25")
    /\ LET t == [task[c] EXCEPT !.attempted = @ \cup {"keyword"}]
       IN  \/ /\ Fail
              /\ Return(c, Err(t, "keyword"))
              /\ UNCHANGED bm25
           \/ /\ NoFail
              /\ bm25' = {}
              /\ Goto(c, [t EXCEPT !.pc = "r_content"])
    /\ UNCHANGED <<lanceDocs, lanceChunks, docsExists, chunksExists, docs_table,
                   chunks_table, contentDocs, contentChunks, nextId, lastIngest,
                   wrote, queueVars>>

\* self.content.lock().unwrap().reset()?, then Ok(()).
ResetContent(c) ==
    /\ UNCHANGED extVars
    /\ At(c, "r_content")
    /\ LET t == [task[c] EXCEPT !.attempted = @ \cup {"content"}]
       IN  \/ /\ Fail
              /\ Return(c, Err(t, "content"))
              /\ UNCHANGED <<contentDocs, contentChunks>>
           \/ /\ NoFail
              /\ contentDocs' = {}
              /\ contentChunks' = {}
              /\ Return(c, Ok(t))
    /\ UNCHANGED <<lanceDocs, lanceChunks, docsExists, chunksExists, docs_table,
                   chunks_table, bm25, nextId, lastIngest, wrote, queueVars>>

----------------------------------------------------------------------------
(* Process restart: Eywa::new -> VectorDB::new *)

\* The process is stopped between calls and started again; VectorDB::new opens
\* the tables that are on disk: open_table(..).execute().await.ok().
Restart ==
    /\ UNCHANGED extVars
    /\ \A c \in Clients : At(c, "idle")
    /\ UNCHANGED <<task, last>>
    /\ writer' = None
    /\ readers' = {}
    /\ docs_table' = docsExists
    /\ chunks_table' = chunksExists
    /\ lastIngest' = <<>>
    /\ UNCHANGED <<lanceDocs, lanceChunks, docsExists, chunksExists, bm25,
                   contentDocs, contentChunks, nextId, wrote, fails, queueVars>>

Next ==
    \/ \E c \in Exclusive, s \in Sources, input \in Inputs : IngestStart(c, s, input)
    \/ \E c \in Clients : IngestContent(c)
    \/ \E c \in Clients : IngestVecDoc(c)
    \/ \E c \in Clients : IngestBatch(c)
    \/ \E c \in Clients : SearchStart(c)
    \/ \E c \in Clients : SearchFetch(c)
    \/ \E c \in Clients, id \in 1..MaxDocs : DeleteDocumentStart(c, id)
    \/ \E c \in Clients : DeleteDocumentVecChunks(c)
    \/ \E c \in Clients : DeleteDocumentContent(c)
    \/ \E c \in Clients, s \in Sources : DeleteSourceStart(c, s)
    \/ \E c \in Clients : DeleteSourceVecChunks(c)
    \/ \E c \in Clients : DeleteSourceVecDocs(c)
    \/ \E c \in Clients : DeleteSourceBm25(c)
    \/ \E c \in Clients : DeleteSourceContent(c)
    \/ \E c \in Exclusive : ResetStart(c)
    \/ \E c \in Clients : ResetBm25(c)
    \/ \E c \in Clients : ResetContent(c)
    \/ Restart
    \/ Deliver

Spec == Init /\ [][Next]_vars

----------------------------------------------------------------------------
(* Properties of the coordinator *)

\* C1: every chunk id present in the Vector Index has a body row in the
\* Content Store, in every reachable state.
C1_VectorChunksHaveBodies ==
    \A r \in VisibleChunks : r.id \in ContentChunkIds

SeenOf(seen, d) == {id \in seen : id[1] = d}

\* What searches have seen: the candidates of the searches in progress and of
\* the search that returned last.
SearchViews == {task[c].seen : c \in Clients} \cup {last.seen}

\* C2: of the chunks of a document d, a search's Vector Index lookup sees
\* either none or the complete set that the ingest writes for d.
C2_SearchSeesNoneOrAll ==
    \A seen \in SearchViews : \A d \in 1..MaxDocs :
        SeenOf(seen, d) = {} \/ SeenOf(seen, d) = SeenOf(wrote, d)

\* A search has returned the complete set of a document that was written in
\* more than one embedding batch.
C2_Witness ==
    /\ last.op = "search"
    /\ last.res = "ok"
    /\ \E d \in 1..MaxDocs :
          /\ SeenOf(last.seen, d) = SeenOf(wrote, d)
          /\ Cardinality(SeenOf(last.seen, d)) > BATCH_SIZE

\* A call that is between two of its writes to the Vector Index.
Modifying(c) ==
    task[c].pc \in {"li_vecdoc", "li_batch", "dd_chunks", "ds_chunks", "ds_docs"}

\* C3: ingest and delete take the lock in write mode: while an ingest, a
\* delete_document or a delete_source is modifying the Vector Index, no
\* search or other reader holds the lock.
C3_ModifiersHoldWriterLock ==
    \A c \in Clients : Modifying(c) => readers \subseteq {c}

\* C4: after successful ingests, no two chunks in the Vector Index have the
\* same content_hash.
C4_NoTwoChunksShareHash ==
    (last.op = "ingest" /\ last.res = "ok" /\ fails = 0) =>
        \A r1, r2 \in VisibleChunks : r1.hash = r2.hash => r1.id = r2.id

\* C5: the second of two back-to-back successful ingests of the same document
\* set reports chunks_created = 0 and chunks_skipped = the total number of
\* chunks of the set.
C5_SecondIngestSkipsAll ==
    (last.op = "ingest" /\ last.res = "ok" /\ last.again) =>
        last.created = 0 /\ last.skipped = last.total

\* The second of two back-to-back ingests of a set has returned and has
\* skipped every chunk of the set.
C5_Witness ==
    /\ last.op = "ingest"
    /\ last.res = "ok"
    /\ last.again
    /\ last.total > 0
    /\ last.skipped = last.total

Quiescent == \A c \in Clients : task[c].pc = "idle"

CountOf(rows, id) == Cardinality({r \in rows : r.doc = id})

\* C6: at quiescence the chunk_count of every document record equals the
\* number of its chunks in the Vector Index, in the Keyword Index and in the
\* Content Store.
C6_ChunkCountMatchesStores ==
    (Quiescent /\ fails = 0) =>
        \A d \in VisibleDocs :
            /\ d.chunk_count = CountOf(VisibleChunks, d.id)
            /\ d.chunk_count = CountOf(bm25, d.id)
            /\ d.chunk_count = CountOf(contentChunks, d.id)

\* C8: after delete_source(s) returns success, s is found neither by
\* list_sources nor by a keyword or hybrid search, and the Content Store's
\* document count has decreased by the number of documents of s it held.
C8_DeleteSourceComplete ==
    (last.op = "delete_source" /\ last.res = "ok") =>
        ~last.found /\ last.removed = last.held

\* C9: a delete whose deletion in the first store, the Vector Index, fails
\* still attempts the deletion in all three stores, and returns the error.
C9_DeleteAttemptsAllStores ==
    (/\ last.op \in {"delete_document", "delete_source"}
     /\ "vector" \in last.failed
     /\ "vector" \in last.attempted) =>
        last.attempted = Stores /\ last.res = "err"

----------------------------------------------------------------------------
(* The HTTP server: handle_ingest -> IngestPipeline::ingest_documents ->     *)
(* flush_batch -> BatchWriter::write_batch                                   *)

\* The chunk ids of a batch of prepared documents.
AllChunks(docs) ==
    UNION {{<<docs[i].id, k>> : k \in 1..NumChunks(docs[i].content)} :
             i \in 1..Len(docs)}

ContentOf(docs, id) == (CHOOSE i \in 1..Len(docs) : docs[i].id = id[1])

HashOf(docs, id) == ChunkHashes(docs[ContentOf(docs, id)].content)[id[2]]

\* flush_batch step 1 / write_embedded_batch: the chunks whose hash is not
\* in the Vector Index yet; the batch itself is not consulted.
chunks_to_embed(docs) == {id \in AllChunks(docs) : ~chunk_exists(HashOf(docs, id))}

\* let mut db = state.db.write().await; prepare_document for each input;
\* flush_batch steps 1 and 2.
HandleIngestStart(c, s, input) ==
    /\ UNCHANGED extVars
    /\ At(c, "idle")
    /\ nextId + Len(input) - 1 <= MaxDocs
    /\ LET docs == [k \in 1..Len(input) |->
                      [id |-> nextId + k - 1, content |-> input[k]]]
           t == [Idle EXCEPT !.op = "ingest", !.src = s, !.docs = docs]
       IN  \/ /\ writer = None /\ readers = {}
              /\ chunks_table
              /\ Fail
              /\ Return(c, Err(t, "vector"))
              /\ lastIngest' = <<>>
           \/ /\ NoFail
              /\ DbWrite(c)
              /\ task' = [task EXCEPT ![c] =
                           [t EXCEPT !.pc = "wb_content", !.ids = chunks_to_embed(docs)]]
              /\ UNCHANGED <<last, lastIngest>>
    /\ nextId' = nextId + Len(input)
    /\ UNCHANGED <<storeVars, wrote, queueVars>>

\* write_batch (a): Content Store, document rows, then chunk rows.
WriteBatchContent(c) ==
    /\ UNCHANGED extVars
    /\ At(c, "wb_content")
    /\ LET t == task[c]
           drows == {[id |-> t.docs[i].id, src |-> t.src] : i \in 1..Len(t.docs)}
           crows == {[id |-> id, doc |-> id[1]] : id \in t.ids}
       IN  \/ /\ Fail
              /\ Return(c, Err(t, "content"))
              /\ lastIngest' = <<>>
              /\ \/ UNCHANGED <<contentDocs, contentChunks>>
                 \/ /\ contentDocs' = contentDocs \cup drows
                    /\ UNCHANGED contentChunks
           \/ /\ NoFail
              /\ contentDocs' = contentDocs \cup drows
              /\ contentChunks' = contentChunks \cup crows
              /\ Goto(c, [t EXCEPT !.pc = "wb_vector"])
              /\ UNCHANGED lastIngest
    /\ UNCHANGED <<lanceDocs, lanceChunks, docsExists, chunksExists, docs_table,
                   chunks_table, bm25, nextId, wrote, queueVars>>

\* write_batch (b): Vector Index, document records, then chunk records.
WriteBatchVector(c) ==
    /\ UNCHANGED extVars
    /\ At(c, "wb_vector")
    /\ LET t == task[c]
           drecs == {[id |-> t.docs[i].id, src |-> t.src,
                      chunk_count |-> NumChunks(t.docs[i].content)] :
                       i \in 1..Len(t.docs)}
           crecs == {ChunkRecord(t.docs[ContentOf(t.docs, id)], t.src, id[2]) :
                       id \in t.ids}
           can == CanOpenDocs /\ (t.ids # {} => CanOpenChunks)
       IN  \/ /\ IF can THEN Fail ELSE NoFail
              /\ Return(c, Err(t, "vector"))
              /\ lastIngest' = <<>>
              /\ UNCHANGED <<lanceDocs, lanceChunks, docsExists, chunksExists,
                             docs_table, chunks_table, wrote>>
           \/ /\ NoFail
              /\ can
              /\ lanceDocs' = lanceDocs \cup drecs
              /\ docsExists' = TRUE
              /\ docs_table' = TRUE
              /\ lanceChunks' = lanceChunks \cup crecs
              /\ chunksExists' = (chunksExists \/ t.ids # {})
              /\ chunks_table' = (chunks_table \/ t.ids # {})
              /\ wrote' = wrote \cup t.ids
              /\ Goto(c, [t EXCEPT !.pc = "wb_keyword"])
              /\ UNCHANGED lastIngest
    /\ UNCHANGED <<bm25, contentDocs, contentChunks, nextId, queueVars>>

\* write_batch (c): Keyword Index, each surviving chunk; then
\* Ok(IngestResponse) with chunks_created = stats.chunks_written.
WriteBatchKeyword(c) ==
    /\ UNCHANGED extVars
    /\ At(c, "wb_keyword")
    /\ LET t == task[c]
           postings == {[id |-> id, doc |-> id[1], src |-> t.src] : id \in t.ids}
           total == TotalChunks(InputOf(t.docs))
       IN  \/ /\ Fail
              /\ Return(c, Err(t, "keyword"))
              /\ lastIngest' = <<>>
              /\ UNCHANGED bm25
           \/ /\ NoFail
              /\ bm25' = bm25 \cup postings
              /\ Return(c, [Ok(t) EXCEPT
                              !.created = Cardinality(t.ids),
                              !.skipped = total - Cardinality(t.ids),
                              !.total = total,
                              !.again = (lastIngest = InputOf(t.docs))])
              /\ lastIngest' = InputOf(t.docs)
    /\ UNCHANGED <<lanceDocs, lanceChunks, docsExists, chunksExists, docs_table,
                   chunks_table, contentDocs, contentChunks, nextId, wrote,
                   queueVars>>

\* handle_search and handle_delete_doc make the store calls of Eywa::search
\* and Eywa::delete_document, under the same lock modes.
NextServer ==
    \/ \E c \in Exclusive, s \in Sources, input \in Inputs : HandleIngestStart(c, s, input)
    \/ \E c \in Clients : WriteBatchContent(c)
    \/ \E c \in Clients : WriteBatchVector(c)
    \/ \E c \in Clients : WriteBatchKeyword(c)
    \/ \E c \in Clients : SearchStart(c)
    \/ \E c \in Clients : SearchFetch(c)
    \/ \E c \in Clients, id \in 1..MaxDocs : DeleteDocumentStart(c, id)
    \/ \E c \in Clients : DeleteDocumentVecChunks(c)
    \/ \E c \in Clients : DeleteDocumentContent(c)
    \/ Deliver

SpecServer == Init /\ [][NextServer]_vars

\* C7: after delete_document(id) returns success, neither the document row
\* nor a chunk of the document remains in the Vector Index, the Keyword Index
\* or the Content Store.
C7_DeleteDocumentCascades ==
    (last.op = "delete_document" /\ last.res = "ok") => last.left = {}

----------------------------------------------------------------------------
(* The job queue and its worker: handle_queue, run_queue_worker *)

\* let mut queue = job_queue.lock().unwrap()
QueueLockFree(w) == qmutex' = qmutex

QueueLock(w) == qmutex = None /\ qmutex' = w

QueueUnlock(w) == qmutex' = IF qmutex = w THEN None ELSE qmutex

\* The queued documents that get_next_pending may return.
Pending == {d \in 1..Len(qdocs) : qdocs[d].status = "pending"}

Min(S) == CHOOSE x \in S : \A y \in S : x <= y

\* handle_queue: queue_documents under the mutex; every document is pending.
HandleQueue(s, input) ==
    /\ UNCHANGED extVars
    /\ qmutex = None
    /\ Len(qdocs) + Len(input) <= MaxQueued
    /\ qdocs' = qdocs \o [k \in 1..Len(input) |->
                            [status |-> "pending", src |-> s, content |-> input[k],
                             result |-> "-", marks |-> 0, error |-> FALSE,
                             doc |-> 0, embedded |-> FALSE]]
    /\ handed' = handed \o [k \in 1..Len(input) |-> 0]
    /\ UNCHANGED <<storeVars, lockVars, task, last, nextId, lastIngest, wrote,
                   fails, qmutex, wpc, wdoc>>

\* run_queue_worker takes the mutex; get_next_pending reads the oldest
\* pending document.
GetNextPendingRead(w) ==
    /\ UNCHANGED extVars
    /\ wpc[w] = "loop"
    /\ QueueLock(w)
    /\ wdoc' = [wdoc EXCEPT ![w] = IF Pending = {} THEN 0 ELSE Min(Pending)]
    /\ wpc' = [wpc EXCEPT ![w] = "mark"]
    /\ UNCHANGED <<storeVars, lockVars, task, last, nextId, lastIngest, wrote,
                   fails, qdocs, handed>>

\* get_next_pending marks the document processing and returns it; the guard
\* is dropped.  Ok(None): the worker sleeps and polls again.  Err: the worker
\* prints the error, sleeps and polls again.
GetNextPendingMark(w) ==
    /\ UNCHANGED extVars
    /\ wpc[w] = "mark"
    /\ QueueUnlock(w)
    /\ \/ /\ NoFail
          /\ UNCHANGED wdoc
          /\ IF wdoc[w] = 0
             THEN /\ wpc' = [wpc EXCEPT ![w] = "loop"]
                  /\ UNCHANGED <<qdocs, handed>>
             ELSE /\ qdocs' = [qdocs EXCEPT ![wdoc[w]].status = "processing"]
                  /\ handed' = [handed EXCEPT ![wdoc[w]] = @ + 1]
                  /\ wpc' = [wpc EXCEPT ![w] = "prepare"]
       \/ /\ Fail
          /\ wpc' = [wpc EXCEPT ![w] = "loop"]
          /\ wdoc' = [wdoc EXCEPT ![w] = 0]
          /\ UNCHANGED <<qdocs, handed>>
    /\ UNCHANGED <<storeVars, lockVars, task, last, nextId, lastIngest, wrote>>

\* The result of process_single_document for the document the worker holds.
Processed(w, r) == [qdocs EXCEPT ![wdoc[w]].result = r]

\* process_single_document step 1: prepare_and_embed, no lock held.
\* prepare_document gives the document its id; an embed_batch that fails
\* ends the call before an EmbeddedBatch exists.
PrepareAndEmbed(w) ==
    /\ UNCHANGED extVars
    /\ wpc[w] = "prepare"
    /\ \/ /\ Fail
          /\ wpc' = [wpc EXCEPT ![w] = "failed"]
          /\ qdocs' = [Processed(w, "err") EXCEPT ![wdoc[w]].doc = nextId]
       \/ /\ NoFail
          /\ wpc' = [wpc EXCEPT ![w] = "write"]
          /\ qdocs' = [qdocs EXCEPT ![wdoc[w]].doc = nextId,
                                    ![wdoc[w]].embedded = TRUE]
    /\ nextId' = nextId + 1
    /\ UNCHANGED <<storeVars, lockVars, task, last, lastIngest, wrote,
                   qmutex, wdoc, handed>>

\* process_single_document step 2: let mut db = db_lock.write().await;
\* write_embedded_batch: the duplicate check, then write_batch (a) (b) (c).
\* The guard is dropped at the end of the block.
WriteEmbeddedBatch(w) ==
    /\ UNCHANGED extVars
    /\ wpc[w] = "write"
    /\ writer = None /\ readers = {}
    /\ LET q == qdocs[wdoc[w]]
           docs == <<[id |-> q.doc, content |-> q.content]>>
           keep == chunks_to_embed(docs)
           drow == [id |-> q.doc, src |-> q.src]
           crows == {[id |-> id, doc |-> id[1]] : id \in keep}
           drec == [id |-> q.doc, src |-> q.src, chunk_count |-> NumChunks(q.content)]
           crecs == {ChunkRecord(docs[1], q.src, id[2]) : id \in keep}
           postings == {[id |-> id, doc |-> id[1], src |-> q.src] : id \in keep}
       IN  \/ /\ Fail
              /\ wpc' = [wpc EXCEPT ![w] = "failed"]
              /\ qdocs' = Processed(w, "err")
              /\ \/ UNCHANGED <<storeVars, wrote>>
                 \/ /\ contentDocs' = contentDocs \cup {drow}
                    /\ contentChunks' = contentChunks \cup crows
                    /\ UNCHANGED <<lanceDocs, lanceChunks, docsExists, chunksExists,
                                   docs_table, chunks_table, bm25, wrote>>
           \/ /\ NoFail
              /\ wpc' = [wpc EXCEPT ![w] = "completed"]
              /\ qdocs' = Processed(w, "ok")
              /\ contentDocs' = contentDocs \cup {drow}
              /\ contentChunks' = contentChunks \cup crows
              /\ lanceDocs' = lanceDocs \cup {drec}
              /\ docsExists' = TRUE
              /\ docs_table' = TRUE
              /\ lanceChunks' = lanceChunks \cup crecs
              /\ chunksExists' = (chunksExists \/ keep # {})
              /\ chunks_table' = (chunks_table \/ keep # {})
              /\ bm25' = bm25 \cup postings
              /\ wrote' = wrote \cup keep
    /\ UNCHANGED <<lockVars, task, last, nextId, lastIngest, qmutex, wdoc, handed>>

\* Under the mutex again: mark_completed or mark_failed(e.to_string()).  An
\* Err of either is printed and dropped; then the next iteration.
MarkDone(w) ==
    /\ UNCHANGED extVars
    /\ wpc[w] \in {"completed", "failed"}
    /\ qmutex = None
    /\ \/ /\ NoFail
          /\ qdocs' = [qdocs EXCEPT ![wdoc[w]] =
                [@ EXCEPT !.status = IF wpc[w] = "completed" THEN "done" ELSE "failed",
                          !.error = (wpc[w] = "failed"),
                          !.marks = @ + 1]]
       \/ /\ Fail
          /\ UNCHANGED qdocs
    /\ wpc' = [wpc EXCEPT ![w] = "loop"]
    /\ wdoc' = [wdoc EXCEPT ![w] = 0]
    /\ UNCHANGED <<storeVars, lockVars, task, last, nextId, lastIngest, wrote,
                   qmutex, handed>>

NextQueue ==
    \/ \E s \in Sources, input \in Inputs : HandleQueue(s, input)
    \/ \E w \in Workers : GetNextPendingRead(w)
    \/ \E w \in Workers : GetNextPendingMark(w)
    \/ \E w \in Workers : PrepareAndEmbed(w)
    \/ \E w \in Workers : WriteEmbeddedBatch(w)
    \/ \E w \in Workers : MarkDone(w)

SpecQueue == Init /\ [][NextQueue]_vars

\* The workers that hold document d: handed out, not yet marked done or failed.
Holders(d) == {w \in Workers : wdoc[w] = d /\ wpc[w] # "loop" /\ wpc[w] # "mark"}

\* C10: get_next_pending reads and marks in one atomic step: every queued
\* document is handed out at most once, and no two workers hold the same
\* document.
C10_HandedOutAtMostOnce ==
    \A d \in 1..Len(qdocs) : handed[d] <= 1 /\ Cardinality(Holders(d)) <= 1

\* Two workers hold a document each at the same time.
C10_Witness ==
    /\ \A w \in Workers : wdoc[w] # 0 /\ wpc[w] \in {"prepare", "write"}
    /\ \A d \in 1..Len(qdocs) : handed[d] = 1

\* C11: every document a worker obtained from get_next_pending is marked
\* exactly once before the worker asks for the next one: done when
\* prepare_and_embed and write_embedded_batch both succeeded, failed with the
\* error otherwise; a document in status processing is held by a worker.
C11_ObtainedDocMarkedOnce ==
    \A d \in 1..Len(qdocs) :
        /\ qdocs[d].marks <= 1
        /\ qdocs[d].status = "done" => qdocs[d].result = "ok" /\ qdocs[d].marks = 1
        /\ qdocs[d].status = "failed" =>
               qdocs[d].result = "err" /\ qdocs[d].error /\ qdocs[d].marks = 1
        /\ qdocs[d].status = "processing" => Holders(d) # {}

----------------------------------------------------------------------------
(* The server stops and starts again: run_server *)

\* create_job_queue opens jobs.db: the rows of the queue are what they were
\* when the process stopped.
create_job_queue == qdocs

\* The process stops at any point and run_server runs again: VectorDB::new
\* reopens the tables that exist, create_job_queue opens the queue, the
\* worker is spawned and starts at the top of its loop.  Locks, guards and
\* requests in progress are gone with the old process.
ServerRestart ==
    /\ UNCHANGED extVars
    /\ qdocs' = create_job_queue
    /\ wpc' = [w \in Workers |-> "loop"]
    /\ wdoc' = [w \in Workers |-> 0]
    /\ qmutex' = None
    /\ writer' = None
    /\ readers' = {}
    /\ docs_table' = docsExists
    /\ chunks_table' = chunksExists
    /\ task' = [c \in Clients |-> Idle]
    /\ last' = NoResponse
    /\ lastIngest' = <<>>
    /\ UNCHANGED <<lanceDocs, lanceChunks, docsExists, chunksExists, bm25,
                   contentDocs, contentChunks, nextId, wrote, fails, handed>>

NextRecover ==
    \/ NextQueue
    \/ ServerRestart

\* The worker task is scheduled again and again; the queue mutex and the
\* database lock are granted to a worker that keeps asking.
WorkerRuns ==
    \A w \in Workers :
        /\ SF_vars(GetNextPendingRead(w))
        /\ WF_vars(GetNextPendingMark(w))
        /\ WF_vars(PrepareAndEmbed(w))
        /\ SF_vars(WriteEmbeddedBatch(w))
        /\ SF_vars(MarkDone(w))

SpecRecover == Init /\ [][NextRecover]_vars /\ WorkerRuns

\* The status of the d-th queued document.
StatusOf(d) == IF d <= Len(qdocs) THEN qdocs[d].status ELSE "-"

----------------------------------------------------------------------------
(* VectorDB::insert_chunks and the embedding column of chunks_v2 *)

\* VectorDB.embedding_dim, scaled down.
EmbeddingDim == 2

\* Chunks, and embeddings, in one call of insert_chunks.
MaxBatch == 3

\* Calls of insert_chunks in a run.
MaxInserts == 2

\* One embedding per chunk, each of the length of the dimension.
WellFormed(lens) == \A e \in 1..Len(lens) : lens[e] = EmbeddingDim

\* The lengths an embedding is supplied with.
EmbeddingLens == {EmbeddingDim - 1, EmbeddingDim, EmbeddingDim + 1}

LensOf(m) == [1..m -> EmbeddingLens]

\* The e-th embedding of a call: n floats, each named by where it came from.
Embedding(e, n) == [j \in 1..n |-> <<e, j>>]

\* embeddings.iter().flatten().copied().collect()
RECURSIVE flat_embeddings(_)
flat_embeddings(embeddings) ==
    IF embeddings = <<>> THEN <<>>
    ELSE Head(embeddings) \o flat_embeddings(Tail(embeddings))

\* FixedSizeListArray::new(field, embedding_dim, values, None): the list has
\* values.len() / embedding_dim items, item k being the k-th run of
\* embedding_dim values.
FixedSizeListArray(values) ==
    [k \in 1..(Len(values) \div EmbeddingDim) |->
        SubSeq(values, (k - 1) * EmbeddingDim + 1, k * EmbeddingDim)]

\* VectorDB::insert_chunks(chunks, embeddings) with n chunks and embeddings
\* of the lengths lens.  RecordBatch::try_new returns Err when the columns
\* differ in length; values left over after the last whole item are accepted
\* or refused, depending on the arrow release.  The metadata columns of the
\* rows are not part of this view of the table.
InsertChunks(n, lens) ==
    /\ inserted.calls < MaxInserts
    /\ LET embeddings == [e \in 1..Len(lens) |-> Embedding(e, lens[e])]
           values == flat_embeddings(embeddings)
           column == FixedSizeListArray(values)
           Returns(r) == inserted' = [calls |-> inserted.calls + 1, chunks |-> n,
                                      lens |-> lens, res |-> r, rows |-> Len(vectors)]
       IN  IF n = 0
           THEN /\ Returns("ok")
                /\ UNCHANGED <<vectors, chunksExists, chunks_table>>
           ELSE /\ chunksExists' = TRUE
                /\ chunks_table' = TRUE
                /\ \/ /\ Len(column) = n
                      /\ Returns("ok")
                      /\ vectors' = vectors \o column
                   \/ /\ Len(column) # n \/ Len(values) % EmbeddingDim # 0
                      /\ Returns("err")
                      /\ UNCHANGED vectors
    /\ UNCHANGED <<lanceDocs, lanceChunks, docsExists, docs_table, bm25, contentDocs,
                   contentChunks, lockVars, task, last, nextId, lastIngest, wrote,
                   fails, queueVars, arg, ret, initVars>>

\* The callers pass one embedding per chunk.
NextDim ==
    \E n \in 0..MaxBatch : \E lens \in LensOf(n) : InsertChunks(n, lens)

SpecDim == Init /\ [][NextDim]_vars

\* C13: a call of insert_chunks in which an embedding has a length other than
\* the dimension of the store returns Err and persists nothing, and every
\* persisted vector has the length of the dimension.
C13_WrongDimensionRejected ==
    /\ ~WellFormed(inserted.lens)
           => inserted.res = "err" /\ Len(vectors) = inserted.rows
    /\ \A k \in 1..Len(vectors) : Len(vectors[k]) = EmbeddingDim

----------------------------------------------------------------------------
(* Eywa::search after the fusion: hydrate, filter, rerank, truncate *)

\* Candidates in a fused list.
MaxCandidates == 3

\* The largest limit of a search.
MaxLimit == 2

\* Scores in hundredths.  The filter's threshold, 0.3.
ScoreThreshold == 30

\* The boost per matching query term of rerank_with_keywords.
KeywordBoost == 5

FusedScores == {28, 30, 60}

\* How many query terms a result's text contains.
Hits == {0, 1}

\* A candidate of the fused list: its score, whether the Content Store has
\* its body, whether the vector results hold its metadata, keyword matches.
Candidate == [fused : FusedScores, body : BOOLEAN, meta : BOOLEAN, hits : Hits]

\* convex_fusion returns the candidates sorted by score, descending.
FusedLists ==
    {f \in UNION {[1..n -> Candidate] : n \in 0..MaxCandidates} :
        \A k \in 1..(Len(f) - 1) : f[k].fused >= f[k + 1].fused}

Take(s, n) == SubSeq(s, 1, IF Len(s) < n THEN Len(s) ELSE n)

\* Step 5 with the keyword-only branch building a result from the body alone.
HydrateKeywordOnly(fused, limit) ==
    LET top == [k \in 1..Len(Take(fused, limit * 2)) |->
                    [id |-> k, fused |-> fused[k].fused, score |-> fused[k].fused,
                     body |-> fused[k].body, meta |-> fused[k].meta,
                     hits |-> fused[k].hits]]
        kept == SelectSeq(top, LAMBDA r : r.body)
    IN  [k \in 1..Len(kept) |-> [id |-> kept[k].id, fused |-> kept[k].fused,
                                 score |-> kept[k].score, hits |-> kept[k].hits]]

\* Step 5 of Eywa::search: the first 2 * limit candidates that have a body
\* and metadata become results, score = fused score.
Hydrate(fused, limit) ==
    LET top == [k \in 1..Len(Take(fused, limit * 2)) |->
                    [id |-> k, fused |-> fused[k].fused, score |-> fused[k].fused,
                     body |-> fused[k].body, meta |-> fused[k].meta,
                     hits |-> fused[k].hits]]
        kept == SelectSeq(top, LAMBDA r : r.body /\ r.meta)
    IN  [k \in 1..Len(kept) |-> [id |-> kept[k].id, fused |-> kept[k].fused,
                                 score |-> kept[k].score, hits |-> kept[k].hits]]

\* SearchEngine::filter_results: discard results with score below 0.3.
filter_results(results) == SelectSeq(results, LAMBDA r : r.score >= ScoreThreshold)

\* SearchEngine::rerank_with_keywords: adjusted score = score + boost per
\* matching query term; sorted again, descending.
rerank_with_keywords(results) ==
    SortSeq([k \in 1..Len(results) |->
                [results[k] EXCEPT !.score = @ + KeywordBoost * results[k].hits]],
            LAMBDA a, b : a.score > b.score)

RerankThenFilter(results) == filter_results(rerank_with_keywords(results))

\* results = self.search.filter_results(results);
\* results = self.search.rerank_with_keywords(results, query);
FilterAndRerank(results) == rerank_with_keywords(filter_results(results))

\* Eywa::search from the fused list on.
SearchFused(limit) ==
    /\ ret = <<>>
    /\ LET results == Hydrate(arg, limit)
       IN  ret' = <<[limit |-> limit,
                     hydrated |-> results,
                     filtered |-> filter_results(results),
                     results |-> Take(FilterAndRerank(results), limit)]>>
    /\ UNCHANGED <<storeVars, lockVars, task, last, nextId, lastIngest, wrote, fails,
                   queueVars, vectors, inserted, arg, initVars>>

InitFilter ==
    /\ Start
    /\ arg \in FusedLists
    /\ ret = <<>>

NextFilter == \E limit \in 1..MaxLimit : SearchFused(limit)

SpecFilter == InitFilter /\ [][NextFilter]_vars

\* C14: the score filter removes exactly the results whose fused score is
\* below 0.3 and keeps the others in their order; a list whose top fused
\* score is below 0.3 gives an empty result; a search returns no result
\* whose fused score was below 0.3.
C14_FilterBelowThreshold ==
    ret # <<>> =>
        /\ ret[1].filtered =
               SelectSeq(ret[1].hydrated, LAMBDA r : ~(r.fused < ScoreThreshold))
        /\ \A k \in 1..Len(ret[1].hydrated) :
               (\E j \in 1..Len(ret[1].filtered) :
                    ret[1].filtered[j].id = ret[1].hydrated[k].id)
                   <=> ret[1].hydrated[k].fused >= ScoreThreshold
        /\ (arg # <<>> /\ arg[1].fused < ScoreThreshold) => ret[1].results = <<>>
        /\ \A k \in 1..Len(ret[1].results) : ret[1].results[k].fused >= ScoreThreshold

\* A search has returned results after the filter removed a candidate below
\* the threshold that matches a query term.
C14_Witness ==
    /\ ret # <<>>
    /\ ret[1].results # <<>>
    /\ \E k \in 1..Len(ret[1].hydrated) :
           ret[1].hydrated[k].fused < ScoreThreshold /\ ret[1].hydrated[k].hits > 0

----------------------------------------------------------------------------
(* The search entry points: HTTP handler, MCP tool, CLI command *)

\* Rows of chunks_v2 at the time of the search.
MaxRows == 3

Handlers == {"http", "mcp", "cli"}

\* A row of chunks_v2 as the query sees it: the source and the similarity.
ChunkRow == [src : Sources, score : {28, 60}]

\* The table, nearest row first.
ChunkTables ==
    {t \in UNION {[1..n -> ChunkRow] : n \in 0..MaxRows} :
        \A k \in 1..(Len(t) - 1) : t[k].score >= t[k + 1].score}

\* VectorDB::search_filtered(query, limit, source_id): the nearest limit
\* rows, of those with source_id = source when a source is given.
search_filtered(table, limit, source) ==
    LET rows == [k \in 1..Len(table) |->
                    [id |-> k, src |-> table[k].src, fused |-> table[k].score,
                     score |-> table[k].score, hits |-> 0]]
    IN  Take(IF source = None THEN rows
             ELSE SelectSeq(rows, LAMBDA r : r.src = source), limit)

\* VectorDB::search(query, limit)
search(table, limit) == search_filtered(table, limit, None)

\* The vector candidates of each entry point for a request naming source.
\* handle_search of routes.rs: db.search(.., payload.limit * 2).
\* handle_search of mcp/tools.rs: db.search_filtered(.., limit * 2, source).
\* run_search: main drops the command's source; db.search(.., 50).
VectorCandidates(h, table, limit, source) ==
    CASE h = "http" -> search(table, limit * 2)
      [] h = "mcp"  -> search_filtered(table, limit * 2, source)
      [] h = "cli"  -> search(table, 50)

\* A search request to one of the entry points, from the candidates to the
\* response: filter_results, the rerank, the first limit results.
HandleSearch(h, limit, source) ==
    /\ ret = <<>>
    /\ LET results == VectorCandidates(h, arg, limit, source)
       IN  ret' = <<[handler |-> h, limit |-> limit, source |-> source,
                     results |-> Take(FilterAndRerank(results), limit)]>>
    /\ UNCHANGED <<storeVars, lockVars, task, last, nextId, lastIngest, wrote, fails,
                   queueVars, vectors, inserted, arg, initVars>>

InitSearch ==
    /\ Start
    /\ arg \in ChunkTables
    /\ ret = <<>>

NextSearch ==
    \E h \in Handlers, limit \in 1..MaxLimit, source \in Sources \cup {None} :
        HandleSearch(h, limit, source)

SpecSearch == InitSearch /\ [][NextSearch]_vars

\* C15: when a search request names a source, every returned result is of
\* that source, at the HTTP handler, the MCP tool and the CLI command.
C15_ResultsFromNamedSource ==
    (ret # <<>> /\ ret[1].source # None) =>
        \A k \in 1..Len(ret[1].results) : ret[1].results[k].src = ret[1].source

----------------------------------------------------------------------------
(* MarkdownChunker: split_into_sections, split_large_section, chunk *)

TARGET_SIZE == 1500

MIN_CHUNK == 100

\* Lines of a document.
MaxLines == 5

\* A document is the sequence of its lines, a line is its kind: prose (short
\* or long), blank, a header "# ", "## " or "### ", or a code fence "```".
LineKinds == {"text", "long", "blank", "h1", "h2", "h3", "fence"}

\* line.len() for each kind.
LineLen == [text |-> 60, long |-> 800, blank |-> 0, h1 |-> 7, h2 |-> 9, h3 |-> 8,
            fence |-> 3]

Documents == UNION {[1..n -> LineKinds] : n \in 0..MaxLines}

\* content.len(), every line with its newline.
RECURSIVE len(_)
len(content) ==
    IF content = <<>> THEN 0 ELSE LineLen[Head(content)] + 1 + len(Tail(content))

\* content.trim().is_empty()
trim_is_empty(content) == \A k \in 1..Len(content) : content[k] = "blank"

\* SectionContext::default(); a header is named by its line number, 0 is None.
NoContext == [title |-> 0, section |-> 0, subsection |-> 0]

\* The first loop of split_into_sections: the first H1 outside code blocks
\* that no prose precedes.
RECURSIVE first_h1(_, _, _)
first_h1(doc, k, temp_in_code) ==
    IF k > Len(doc) THEN 0
    ELSE IF doc[k] = "fence" THEN first_h1(doc, k + 1, ~temp_in_code)
    ELSE IF temp_in_code THEN first_h1(doc, k + 1, temp_in_code)
    ELSE IF doc[k] = "h1" THEN k
    ELSE IF doc[k] \in {"text", "long"} THEN 0
    ELSE first_h1(doc, k + 1, temp_in_code)

\* The second loop of split_into_sections from line k on, and the push of
\* the last section.
RECURSIVE sections_from(_, _, _, _, _, _, _)
sections_from(doc, k, current_context, current_content, current_start_line, in_code_block, sections) ==
    LET pushed == IF trim_is_empty(current_content) THEN sections
                  ELSE Append(sections, [context |-> current_context,
                                         content |-> current_content,
                                         line_start |-> current_start_line])
    IN  IF k > Len(doc) THEN pushed
        ELSE IF doc[k] = "fence"
        THEN sections_from(doc, k + 1, current_context,
                           Append(current_content, doc[k]), current_start_line,
                           ~in_code_block, sections)
        ELSE IF in_code_block
        THEN sections_from(doc, k + 1, current_context,
                           Append(current_content, doc[k]), current_start_line,
                           in_code_block, sections)
        ELSE IF doc[k] = "h1"
        THEN sections_from(doc, k + 1,
                           [title |-> k, section |-> 0, subsection |-> 0],
                           <<doc[k]>>, k, in_code_block, pushed)
        ELSE IF doc[k] = "h2"
        THEN sections_from(doc, k + 1,
                           [current_context EXCEPT !.section = k, !.subsection = 0],
                           <<doc[k]>>, k, in_code_block, pushed)
        ELSE IF doc[k] = "h3"
        THEN sections_from(doc, k + 1, [current_context EXCEPT !.subsection = k],
                           <<doc[k]>>, k, in_code_block, pushed)
        ELSE sections_from(doc, k + 1, current_context,
                           Append(current_content, doc[k]), current_start_line,
                           in_code_block, sections)

split_into_sections(doc) ==
    sections_from(doc, 1, [NoContext EXCEPT !.title = first_h1(doc, 1, FALSE)],
                  <<>>, 1, FALSE, <<>>)

\* SectionContext::to_hierarchy: the values that are set, in the order title,
\* section, subsection.
to_hierarchy(context) ==
    (IF context.title # 0 THEN <<context.title>> ELSE <<>>)
        \o (IF context.section # 0 THEN <<context.section>> ELSE <<>>)
        \o (IF context.subsection # 0 THEN <<context.subsection>> ELSE <<>>)

\* create_chunk with the metadata the markdown chunker builds.
create_chunk(context, content, line_start) ==
    [context |-> context, content |-> content, line_start |-> line_start,
     hierarchy |-> to_hierarchy(context)]

MaySplitAnywhere(in_code_block, is_code_fence) == TRUE

\* split_large_section splits only outside a code block and not at a fence.
MaySplit(in_code_block, is_code_fence) == ~in_code_block /\ ~is_code_fence

\* The loop of split_large_section from line k on, and the last chunk.
RECURSIVE split_from(_, _, _, _, _, _, _, _)
split_from(context, lines, start_line, k, current_chunk, chunk_start_line, in_code_block, chunks) ==
    IF k > Len(lines)
    THEN IF len(current_chunk) >= MIN_CHUNK
         THEN Append(chunks, create_chunk(context, current_chunk, chunk_start_line))
         ELSE chunks
    ELSE LET is_code_fence == lines[k] = "fence"
             in_code == IF is_code_fence THEN ~in_code_block ELSE in_code_block
             current_line == start_line + k - 1
         IN  IF /\ MaySplit(in_code, is_code_fence)
                /\ len(current_chunk) + LineLen[lines[k]] + 1 > TARGET_SIZE
                /\ len(current_chunk) >= MIN_CHUNK
             THEN split_from(context, lines, start_line, k + 1, <<lines[k]>>,
                             current_line, in_code,
                             Append(chunks, create_chunk(context, current_chunk,
                                                         chunk_start_line)))
             ELSE split_from(context, lines, start_line, k + 1,
                             Append(current_chunk, lines[k]), chunk_start_line,
                             in_code, chunks)

split_large_section(context, content, start_line) ==
    split_from(context, content, start_line, 1, <<>>, start_line, FALSE, <<>>)

\* The loop of chunk over the sections.
RECURSIVE chunks_of(_)
chunks_of(sections) ==
    IF sections = <<>> THEN <<>>
    ELSE LET sec == Head(sections)
             here == IF len(sec.content) <= TARGET_SIZE
                     THEN IF len(sec.content) >= MIN_CHUNK
                          THEN <<create_chunk(sec.context, sec.content,
                                              sec.line_start)>>
                          ELSE <<>>
                     ELSE split_large_section(sec.context, sec.content,
                                              sec.line_start)
         IN  here \o chunks_of(Tail(sections))

\* MarkdownChunker::chunk
chunk(doc) ==
    IF trim_is_empty(doc) THEN <<>>
    ELSE LET chunks == chunks_of(split_into_sections(doc))
         IN  IF chunks = <<>> /\ len(doc) >= MIN_CHUNK
             THEN <<[context |-> NoContext, content |-> doc, line_start |-> 1,
                     hierarchy |-> <<>>]>>
             ELSE chunks

ChunkMarkdown ==
    /\ ret = <<>>
    /\ ret' = <<chunk(arg)>>
    /\ UNCHANGED <<storeVars, lockVars, task, last, nextId, lastIngest, wrote, fails,
                   queueVars, vectors, inserted, arg, initVars>>

InitChunk ==
    /\ Start
    /\ arg \in Documents
    /\ ret = <<>>

NextChunk == ChunkMarkdown

SpecChunk == InitChunk /\ [][NextChunk]_vars

\* content.matches("```").count()
Fences(content) == Cardinality({k \in 1..Len(content) : content[k] = "fence"})

C17_SubsectionHasParents ==
    ret # <<>> =>
        \A k \in 1..Len(ret[1]) :
            ret[1][k].context.subsection # 0 =>
                ret[1][k].context.title # 0 /\ ret[1][k].context.section # 0

----------------------------------------------------------------------------
(* eywa init: run_init_command, the reindex after an embedding-model change *)

\* Document ids handed out in a run with reindexing.
MaxUuid == 4

\* The file contents eywa ingest is run on before and between reindexes.
Files == {"dup"}

\* EmbeddingModelConfig::curated_models(); Config::default() names the first.
Models == {"default", "custom"}

\* A Content Store document row with its body, as
\* get_all_documents_with_metadata reads it back.
DocumentRow(id, s, content) == [id |-> id, src |-> s, content |-> content]

\* The rows of a set in the order of their ids.
RECURSIVE InIdOrder(_)
InIdOrder(rows) ==
    IF rows = {} THEN <<>>
    ELSE LET first == CHOOSE r \in rows : \A o \in rows : r.id <= o.id
         IN  <<first>> \o InIdOrder(rows \ {first})

\* flush_batch step 1 for one document, db holding the chunks handle or not.
ChunksToEmbed(d, hchunks) ==
    {<<d.id, k>> : k \in {j \in 1..NumChunks(d.content) :
        ~(hchunks /\ \E r \in lanceChunks : r.hash = ChunkHashes(d.content)[j])}}

\* get_or_create_*_table succeeds for the tables write_batch needs.
CanWrite(d, hdocs, hchunks) ==
    /\ hdocs \/ ~docsExists
    /\ ChunksToEmbed(d, hchunks) # {} => hchunks \/ ~chunksExists

\* IngestPipeline::ingest_documents of one document: prepare_document gives
\* it the fresh id, flush_batch embeds the chunks not yet in the Vector
\* Index, write_batch writes the Content Store, then the Vector Index, then
\* the Keyword Index; a table that cannot be created ends it after the
\* Content Store was written.
PipelineIngest(d, s, hdocs, hchunks) ==
    LET ids == ChunksToEmbed(d, hchunks)
        can == CanWrite(d, hdocs, hchunks)
    IN  /\ contentDocs' = contentDocs \cup {DocumentRow(d.id, s, d.content)}
        /\ contentChunks' = contentChunks \cup {[id |-> id, doc |-> d.id] : id \in ids}
        /\ lanceDocs' = IF can
                        THEN lanceDocs \cup {[id |-> d.id, src |-> s,
                                              chunk_count |-> NumChunks(d.content)]}
                        ELSE lanceDocs
        /\ docsExists' = (docsExists \/ can)
        /\ docs_table' = (hdocs \/ can)
        /\ lanceChunks' = IF can
                          THEN lanceChunks \cup {ChunkRecord(d, s, id[2]) : id \in ids}
                          ELSE lanceChunks
        /\ chunksExists' = (chunksExists \/ (can /\ ids # {}))
        /\ chunks_table' = (hchunks \/ (can /\ ids # {}))
        /\ wrote' = IF can THEN wrote \cup ids ELSE wrote
        /\ bm25' = IF can
                   THEN bm25 \cup {[id |-> id, doc |-> d.id, src |-> s] : id \in ids}
                   ELSE bm25
        /\ nextId' = nextId + 1

\* eywa ingest: run_ingest opens the stores and ingests one file.
RunIngest(s, content) ==
    /\ reindex.pc = "idle"
    /\ nextId <= MaxUuid
    /\ PipelineIngest([id |-> nextId, content |-> content], s, docsExists, chunksExists)
    /\ UNCHANGED <<lockVars, task, last, lastIngest, fails, queueVars,
                   vectors, inserted, arg, coord, ret, marker, config, reindex>>

\* eywa init up to `if needs_reindex || interrupted`.  With --default the
\* default configuration is saved and the command returns.  Otherwise
\* run_init asks for the model, asks for confirmation when the embedding
\* model changes, and saves the configuration unless the user declines.
InitCommand(default, choice, confirm) ==
    /\ reindex.pc = "idle"
    /\ LET needs_reindex == config # None /\ config # choice
           interrupted == marker
           returned == [NoReindex EXCEPT !.started = "init"]
       IN  IF default
           THEN /\ config' = "default"
                /\ reindex' = returned
           ELSE IF needs_reindex /\ ~confirm
           THEN /\ UNCHANGED config
                /\ reindex' = returned
           ELSE /\ config' = choice
                /\ reindex' = IF needs_reindex \/ interrupted
                              THEN [returned EXCEPT !.pc = "load"]
                              ELSE returned
    /\ UNCHANGED <<storeVars, lockVars, task, last, nextId, lastIngest, wrote,
                   fails, queueVars, vectors, inserted, arg, coord, ret, marker>>

\* Steps 1 and 2: document_count; without documents the marker is removed
\* and the command returns, else get_all_documents_with_metadata.
ReindexLoad ==
    /\ reindex.pc = "load"
    /\ IF contentDocs = {}
       THEN /\ marker' = FALSE
            /\ reindex' = [reindex EXCEPT !.pc = "idle"]
       ELSE /\ UNCHANGED marker
            /\ reindex' = [reindex EXCEPT !.pc = "mark",
                                          !.documents = InIdOrder(contentDocs)]
    /\ UNCHANGED <<storeVars, lockVars, task, last, nextId, lastIngest, wrote,
                   fails, queueVars, vectors, inserted, arg, coord, ret, config>>

\* Steps 3 to 5: the models are downloaded, the embedder is built,
\* std::fs::write(&marker_path, "")?.
ReindexMark ==
    /\ reindex.pc = "mark"
    /\ marker' = TRUE
    /\ reindex' = [reindex EXCEPT !.pc = "reset"]
    /\ UNCHANGED <<storeVars, lockVars, task, last, nextId, lastIngest, wrote,
                   fails, queueVars, vectors, inserted, arg, coord, ret, config>>

\* Step 6, Vector Index: VectorDB::new opens the tables on disk and
\* reset_all drops them; a failed drop is discarded.
ReindexReset ==
    /\ reindex.pc = "reset"
    /\ \E okChunks, okDocs \in BOOLEAN :
          LET failed == (IF okChunks THEN 0 ELSE 1) + (IF okDocs THEN 0 ELSE 1)
          IN  /\ ~okChunks => chunksExists
              /\ ~okDocs => docsExists
              /\ fails + failed <= MaxFailures
              /\ fails' = fails + failed
              /\ lanceChunks' = IF okChunks THEN {} ELSE lanceChunks
              /\ chunksExists' = (chunksExists /\ ~okChunks)
              /\ lanceDocs' = IF okDocs THEN {} ELSE lanceDocs
              /\ docsExists' = (docsExists /\ ~okDocs)
    /\ chunks_table' = FALSE
    /\ docs_table' = FALSE
    /\ reindex' = [reindex EXCEPT !.pc = "reset_bm25"]
    /\ UNCHANGED <<bm25, contentDocs, contentChunks, lockVars, task, last, nextId,
                   lastIngest, wrote, queueVars, vectors, inserted, arg, coord, ret,
                   marker, config>>

\* Step 6, Keyword Index: bm25_index.reset()?
ReindexResetBm25 ==
    /\ reindex.pc = "reset_bm25"
    /\ bm25' = {}
    /\ reindex' = [reindex EXCEPT !.pc = "loop"]
    /\ UNCHANGED <<lanceDocs, lanceChunks, docsExists, chunksExists, docs_table,
                   chunks_table, contentDocs, contentChunks, lockVars, task, last,
                   nextId, lastIngest, wrote, fails, queueVars, vectors, inserted,
                   arg, coord, ret, marker, config>>

\* Step 7, one document: pipeline.ingest_documents(&mut db, data_path,
\* &doc.source_id, vec![doc_input]).await?
ReindexIngest ==
    /\ reindex.pc = "loop"
    /\ reindex.i <= Len(reindex.documents)
    /\ nextId <= MaxUuid
    /\ LET doc == reindex.documents[reindex.i]
           d == [id |-> nextId, content |-> doc.content]
       IN  /\ PipelineIngest(d, doc.src, docs_table, chunks_table)
           /\ reindex' = IF CanWrite(d, docs_table, chunks_table)
                         THEN [reindex EXCEPT !.i = @ + 1]
                         ELSE [reindex EXCEPT !.pc = "idle", !.started = "-"]
    /\ UNCHANGED <<lockVars, task, last, lastIngest, fails, queueVars,
                   vectors, inserted, arg, coord, ret, marker, config>>

\* Step 8: std::fs::remove_file(&marker_path).ok()
ReindexUnmark ==
    /\ reindex.pc = "loop"
    /\ reindex.i > Len(reindex.documents)
    /\ marker' = FALSE
    /\ reindex' = [reindex EXCEPT !.pc = "idle"]
    /\ UNCHANGED <<storeVars, lockVars, task, last, nextId, lastIngest, wrote,
                   fails, queueVars, vectors, inserted, arg, coord, ret, config>>

\* The command ends early: the process is killed, or a call followed by `?`
\* returns Err.  Nothing is undone.
ReindexInterrupted ==
    /\ reindex.pc # "idle"
    /\ reindex' = [reindex EXCEPT !.pc = "idle", !.started = "-"]
    /\ UNCHANGED <<storeVars, lockVars, task, last, nextId, lastIngest, wrote,
                   fails, queueVars, vectors, inserted, arg, coord, ret, marker,
                   config>>

\* eywa serve: run_server opens the stores, creates the job queue, spawns
\* the worker and serves.
RunServer ==
    /\ reindex.pc = "idle"
    /\ docs_table' = docsExists
    /\ chunks_table' = chunksExists
    /\ reindex' = [reindex EXCEPT !.started = "serve"]
    /\ UNCHANGED <<lanceDocs, lanceChunks, docsExists, chunksExists, bm25,
                   contentDocs, contentChunks, lockVars, task, last, nextId,
                   lastIngest, wrote, fails, queueVars, vectors, inserted, arg,
                   coord,
                   ret, marker, config>>

NextReindex ==
    \/ \E s \in Sources, content \in Files : RunIngest(s, content)
    \/ \E default, confirm \in BOOLEAN, choice \in Models :
          InitCommand(default, choice, confirm)
    \/ ReindexLoad
    \/ ReindexMark
    \/ ReindexReset
    \/ ReindexResetBm25
    \/ ReindexIngest
    \/ ReindexUnmark
    \/ ReindexInterrupted
    \/ RunServer

SpecReindex == Init /\ [][NextReindex]_vars

\* C18: the sentinel exists from before the indices are dropped until the
\* last document is re-ingested, it is removed only when every document has
\* been re-ingested, and once a program has started after an interrupted
\* reindex the sentinel is gone or the reindex is running again.
C18_SentinelWhileReindexing ==
    /\ [](reindex.pc \in {"reset", "reset_bm25", "loop"} => marker)
    /\ [][marker /\ ~marker' => reindex.i > Len(reindex.documents)]_vars
    /\ [](marker /\ reindex.pc = "idle" => reindex.started = "-")

\* C19: no step of a reindex, first run or resumed, changes the Content
\* Store's documents.
C19_ReindexKeepsContentStore ==
    [][reindex.pc # "idle" => contentDocs' = contentDocs]_vars

----------------------------------------------------------------------------
(* Eywa::normalize_scores *)

\* Longest score list.
MaxScores == 3

\* 1.0 in the fixed-point scale of the normalized scores.
One == 1000

ScoreIds == {"a", "b"}

\* Raw scores: distances and BM25 scores, negative ones included.
RawScores == {-3, 0, 1, 5}

ScoreLists ==
    UNION {[1..n -> [id : ScoreIds, score : RawScores]] : n \in 0..MaxScores}

\* f32::min and f32::max; <<>> stands for f32::INFINITY and
\* f32::NEG_INFINITY, to which every score is preferred.
f32_min(acc, s) == IF acc = <<>> \/ s < acc[1] THEN <<s>> ELSE acc

f32_max(acc, s) == IF acc = <<>> \/ s > acc[1] THEN <<s>> ELSE acc

\* scores.iter().map(|(_, s)| *s).fold(init, f32::min)
RECURSIVE fold_min(_, _, _)
fold_min(scores, k, acc) ==
    IF k > Len(scores) THEN acc
    ELSE fold_min(scores, k + 1, f32_min(acc, scores[k].score))

\* scores.iter().map(|(_, s)| *s).fold(init, f32::max)
RECURSIVE fold_max(_, _, _)
fold_max(scores, k, acc) ==
    IF k > Len(scores) THEN acc
    ELSE fold_max(scores, k + 1, f32_max(acc, scores[k].score))

min_from_zero(scores) == fold_min(scores, 1, <<0>>)[1]

min_score(scores) == fold_min(scores, 1, <<>>)[1]

max_score(scores) == fold_max(scores, 1, <<>>)[1]

normalize_scores(scores) ==
    IF scores = <<>> THEN <<>>
    ELSE LET min == min_score(scores)
             max == max_score(scores)
             range == max - min
         IN  IF range = 0
             THEN [k \in 1..Len(scores) |-> [id |-> scores[k].id, score |-> One]]
             ELSE [k \in 1..Len(scores) |->
                     [id |-> scores[k].id,
                      score |-> ((scores[k].score - min) * One) \div range]]

NormalizeScores ==
    /\ ret = <<>>
    /\ ret' = <<normalize_scores(arg)>>
    /\ UNCHANGED <<storeVars, lockVars, task, last, nextId, lastIngest, wrote,
                   fails, queueVars, vectors, inserted, arg, coord, marker, config,
                   reindex>>

InitNormalize ==
    /\ Start
    /\ arg \in ScoreLists
    /\ ret = <<>>

NextNormalize == NormalizeScores

SpecNormalize == InitNormalize /\ [][NextNormalize]_vars

Lowest(scores) ==
    CHOOSE s \in {scores[k].score : k \in 1..Len(scores)} :
        \A k \in 1..Len(scores) : s <= scores[k].score

Highest(scores) ==
    CHOOSE s \in {scores[k].score : k \in 1..Len(scores)} :
        \A k \in 1..Len(scores) : s >= scores[k].score

\* C20: normalize_scores returns the ids in input order; nothing for an
\* empty list; 1.0 for the item of a one-item list and for every item when
\* all scores are equal; otherwise (s - min)/(max - min), with the minimum
\* at 0, the maximum at 1 and every value in [0, 1].
C20_NormalizeScores ==
    ret # <<>> =>
        LET out == ret[1]
        IN  /\ Len(out) = Len(arg)
            /\ \A k \in 1..Len(arg) : out[k].id = arg[k].id
            /\ Len(arg) = 1 => out[1].score = One
            /\ arg # <<>> =>
                 LET lo == Lowest(arg)
                     hi == Highest(arg)
                 IN  \A k \in 1..Len(arg) :
                        IF lo = hi
                        THEN out[k].score = One
                        ELSE /\ out[k].score = ((arg[k].score - lo) * One) \div (hi - lo)
                             /\ out[k].score >= 0
                             /\ out[k].score <= One
                             /\ arg[k].score = lo => out[k].score = 0
                             /\ arg[k].score = hi => out[k].score = One

\* Three items with a negative minimum were normalized to 0, a value
\* strictly between 0 and 1, and 1.
C20_Witness ==
    /\ ret # <<>>
    /\ Len(arg) = 3
    /\ Lowest(arg) < 0
    /\ \E i, j, k \in 1..3 :
           /\ ret[1][i].score = 0
           /\ ret[1][j].score > 0 /\ ret[1][j].score < One
           /\ ret[1][k].score = One

----------------------------------------------------------------------------
(* Store order within one ingest call *)

\* The ids prepare gave to the documents of the ingest that returned last.
LastIngestIds == (nextId - Len(lastIngest))..(nextId - 1)

\* C21: when an ingest call has returned Ok, every chunk it put into the
\* Vector Index is indexed in the Keyword Index too (Content Store, then
\* Vector Index, then Keyword Index, all three before the call returns).
C21_IngestedChunksAreKeywordIndexed ==
    (last.op = "ingest" /\ last.res = "ok") =>
        \A r \in lanceChunks :
            r.doc \in LastIngestIds => \E p \in bm25 : p.id = r.id

----------------------------------------------------------------------------
(* Embedding and the writer lock *)

\* The caller has its chunks embedded (flush_batch step 2 is done) and the
\* batch is still to be written.
EmbeddedNotWritten(c) == task[c].pc = "wb_content" /\ task[c].ids # {}

\* C22: a caller whose chunks have just been embedded does not hold the
\* Vector Index writer lock yet: the embedder runs before the lock is taken,
\* in the HTTP handler as in the queue worker.
C22_EmbeddingBeforeWriterLock ==
    /\ \A c \in Clients : EmbeddedNotWritten(c) => writer # c
    /\ \A w \in Workers : wpc[w] = "write" => writer # w

----------------------------------------------------------------------------
(* IngestPipeline::ingest_documents with several batches: flush_batch *)

\* BatchConfig.max_docs of a pipeline built by with_config.
MaxDocsPerBatch == {1, 2}

Least(a, b) == IF a < b THEN a ELSE b

\* The documents the accumulator holds when it is flushed: from t.i on, at
\* most max_docs (t.b) of them.
BatchDocs(t) == SubSeq(t.docs, t.i, Least(t.i + t.b - 1, Len(t.docs)))

DocIds(docs) == {docs[k].id : k \in 1..Len(docs)}

\* embed_batch returns Err in flush_batch step 2, after the Content Store
\* write of the batch.
EmbedErrorAfterContent(docs, s) ==
    /\ contentDocs' = contentDocs \cup {[id |-> id, src |-> s] : id \in DocIds(docs)}
    /\ contentChunks' = contentChunks \cup
                          {[id |-> id, doc |-> id[1]] : id \in AllChunks(docs)}

\* embed_batch returns Err in flush_batch step 2: `?` leaves flush_batch
\* before write_batch is called.
EmbedError(docs, s) == UNCHANGED <<contentDocs, contentChunks>>

\* The response to an ingest that ended in flush_batch step 2: left is the
\* batch that was being flushed, seen the batches flushed before it.
FlushErr(t, store) ==
    [Err(t, store) EXCEPT !.left = DocIds(BatchDocs(t)),
                          !.seen = DocIds(SubSeq(t.docs, 1, t.i - 1))]

\* handle_ingest: let mut db = state.db.write().await; ingest_documents
\* prepares every document and adds them to the accumulator.
IngestBatched(c, s, input, max_docs) ==
    /\ At(c, "idle")
    /\ nextId + Len(input) - 1 <= MaxDocs
    /\ DbWrite(c)
    /\ task' = [task EXCEPT ![c] =
                 [Idle EXCEPT !.pc = "fl_embed", !.op = "ingest", !.src = s,
                              !.i = 1, !.b = max_docs,
                              !.docs = [k \in 1..Len(input) |->
                                          [id |-> nextId + k - 1, content |-> input[k]]]]]
    /\ nextId' = nextId + Len(input)
    /\ UNCHANGED <<storeVars, last, lastIngest, wrote, fails, queueVars, extVars>>

\* flush_batch steps 1 and 2 of one batch: chunk_exists for every chunk,
\* then embed_batch for every sub-batch of the chunks that are new.
FlushBatchEmbed(c) ==
    /\ At(c, "fl_embed")
    /\ LET t == task[c]
           docs == BatchDocs(t)
           new == chunks_to_embed(docs)
       IN  \/ /\ chunks_table
              /\ Fail
              /\ Return(c, FlushErr(t, "vector"))
              /\ UNCHANGED <<contentDocs, contentChunks>>
           \/ /\ new # {}
              /\ Fail
              /\ Return(c, FlushErr(t, "embedder"))
              /\ EmbedError(docs, t.src)
           \/ /\ NoFail
              /\ Goto(c, [t EXCEPT !.pc = "fl_write", !.ids = new])
              /\ UNCHANGED <<contentDocs, contentChunks>>
    /\ lastIngest' = <<>>
    /\ UNCHANGED <<lanceDocs, lanceChunks, docsExists, chunksExists, docs_table,
                   chunks_table, bm25, nextId, wrote, queueVars, extVars>>

\* flush_batch step 3 of one batch: write_batch, Content Store, Vector
\* Index, Keyword Index; then the next batch, or Ok(IngestResponse).
FlushBatchWrite(c) ==
    /\ At(c, "fl_write")
    /\ LET t == task[c]
           docs == BatchDocs(t)
           drows == {[id |-> id, src |-> t.src] : id \in DocIds(docs)}
           crows == {[id |-> id, doc |-> id[1]] : id \in t.ids}
           drecs == {[id |-> docs[k].id, src |-> t.src,
                      chunk_count |-> NumChunks(docs[k].content)] : k \in 1..Len(docs)}
           crecs == {ChunkRecord(docs[ContentOf(docs, id)], t.src, id[2]) : id \in t.ids}
           postings == {[id |-> id, doc |-> id[1], src |-> t.src] : id \in t.ids}
           can == CanOpenDocs /\ (t.ids # {} => CanOpenChunks)
           next == t.i + t.b
       IN  \/ /\ IF can THEN Fail ELSE NoFail
              /\ Return(c, Err(t, "vector"))
              /\ contentDocs' = contentDocs \cup drows
              /\ contentChunks' = contentChunks \cup crows
              /\ UNCHANGED <<lanceDocs, lanceChunks, docsExists, chunksExists,
                             docs_table, chunks_table, bm25, wrote>>
           \/ /\ NoFail
              /\ can
              /\ contentDocs' = contentDocs \cup drows
              /\ contentChunks' = contentChunks \cup crows
              /\ lanceDocs' = lanceDocs \cup drecs
              /\ docsExists' = TRUE
              /\ docs_table' = TRUE
              /\ lanceChunks' = lanceChunks \cup crecs
              /\ chunksExists' = (chunksExists \/ t.ids # {})
              /\ chunks_table' = (chunks_table \/ t.ids # {})
              /\ bm25' = bm25 \cup postings
              /\ wrote' = wrote \cup t.ids
              /\ IF next <= Len(t.docs)
                 THEN Goto(c, [t EXCEPT !.pc = "fl_embed", !.i = next, !.ids = {}])
                 ELSE Return(c, Ok(t))
    /\ lastIngest' = <<>>
    /\ UNCHANGED <<nextId, queueVars, extVars>>

\* run_server spawns one worker task.
FlushWorkers == {"w1"}

NextFlush ==
    \/ \E c \in Exclusive, s \in Sources, input \in Inputs, max_docs \in MaxDocsPerBatch :
          IngestBatched(c, s, input, max_docs)
    \/ \E c \in Clients : FlushBatchEmbed(c)
    \/ \E c \in Clients : FlushBatchWrite(c)
    \/ Deliver
    \/ \E s \in Sources, input \in Inputs : HandleQueue(s, input)
    \/ \E w \in FlushWorkers : GetNextPendingRead(w)
    \/ \E w \in FlushWorkers : GetNextPendingMark(w)
    \/ \E w \in FlushWorkers : PrepareAndEmbed(w)
    \/ \E w \in FlushWorkers : WriteEmbeddedBatch(w)
    \/ \E w \in FlushWorkers : MarkDone(w)

SpecFlush == Init /\ [][NextFlush]_vars

\* No store holds the document id or a chunk of it.
NotStored(id) ==
    /\ \A r \in contentDocs \cup lanceDocs : r.id # id
    /\ \A r \in contentChunks \cup lanceChunks \cup bm25 : r.doc # id

\* C23: when embedding fails in flush_batch the ingest returns the error, no
\* store holds a document or chunk of the batch being flushed, and the
\* batches flushed before it are in the Content Store and the Vector Index;
\* when embedding fails in prepare_and_embed the worker gets the error and
\* no store holds the document or a chunk of it.
C23_FailedEmbeddingWritesNothing ==
    /\ (last.op = "ingest" /\ last.failed = {"embedder"}) =>
          /\ last.res = "err"
          /\ \A id \in last.left : NotStored(id)
          /\ \A id \in last.seen :
                /\ \E r \in contentDocs : r.id = id
                /\ \E r \in lanceDocs : r.id = id
    /\ \A d \in 1..Len(qdocs) :
          (qdocs[d].doc # 0 /\ ~qdocs[d].embedded) =>
              qdocs[d].result = "err" /\ NotStored(qdocs[d].doc)

\* The second batch of an ingest failed to embed after the first was
\* written.
C23_Witness ==
    /\ last.op = "ingest"
    /\ last.failed = {"embedder"}
    /\ last.seen # {}
    /\ last.left # {}

----------------------------------------------------------------------------
(* Eywa::reset_all: order and result *)

\* The stores reset_all has called when it returns: a prefix of vector,
\* keyword, content.
ResetPrefixes == {{"vector"}, {"vector", "keyword"}, {"vector", "keyword", "content"}}

LastOf(attempted) ==
    IF "content" \in attempted THEN "content"
    ELSE IF "keyword" \in attempted THEN "keyword" ELSE "vector"

\* C24: reset_all resets vector, keyword, content in that order; an error
\* is the error of the store it stopped at, the first that failed; and it
\* returns Ok only if the three stores are empty.
C24_ResetAllStopsAtFirstFailure ==
    last.op = "reset_all" =>
        /\ last.attempted \in ResetPrefixes
        /\ last.res = "err" => last.failed = {LastOf(last.attempted)}
        /\ last.res = "ok" =>
              /\ last.attempted = Stores
              /\ lanceDocs = {} /\ lanceChunks = {}
              /\ bm25 = {}
              /\ contentDocs = {} /\ contentChunks = {}

----------------------------------------------------------------------------
(* Eywa::convex_fusion *)

\* Longest candidate list of either kind.
MaxFused == 2

\* The weights search passes, 0.8 and 0.2, in tenths.
VecWeight == 8

Bm25Weight == 2

FusionIds == {"a", "b", "c"}

FusionScores == {0, 2, 4}

FusionLists ==
    UNION {[1..n -> [id : FusionIds, score : FusionScores]] : n \in 0..MaxFused}

IdsOf(scores) == {scores[k].id : k \in 1..Len(scores)}

\* What the entries 1..k of a normalized list add to combined[id]:
\* *combined.entry(id).or_default() += weight * score, weight factored out.
RECURSIVE Added(_, _, _)
Added(scores, id, k) ==
    IF k = 0 THEN 0
    ELSE Added(scores, id, k - 1) + (IF scores[k].id = id THEN scores[k].score ELSE 0)

\* The second loop assigns instead of adding.
combined_overwritten(vec_normalized, bm25_normalized, vec_weight, bm25_weight) ==
    [id \in IdsOf(vec_normalized) \cup IdsOf(bm25_normalized) |->
        IF id \in IdsOf(bm25_normalized)
        THEN bm25_weight * Added(bm25_normalized, id, Len(bm25_normalized))
        ELSE vec_weight * Added(vec_normalized, id, Len(vec_normalized))]

\* The HashMap after the two loops.
combined(vec_normalized, bm25_normalized, vec_weight, bm25_weight) ==
    [id \in IdsOf(vec_normalized) \cup IdsOf(bm25_normalized) |->
        vec_weight * Added(vec_normalized, id, Len(vec_normalized))
        + bm25_weight * Added(bm25_normalized, id, Len(bm25_normalized))]

\* combined.into_iter().collect() followed by sort_by(b.1 cmp a.1): the map
\* is iterated in no particular order, so entries of equal score come out
\* in any order.
SortedDescending(map) ==
    LET n == Cardinality(DOMAIN map)
        orders == {f \in [1..n -> DOMAIN map] :
                      /\ \A i, j \in 1..n : f[i] = f[j] => i = j
                      /\ \A i, j \in 1..n : i < j => map[f[i]] >= map[f[j]]}
    IN  {[k \in 1..n |-> [id |-> f[k], score |-> map[f[k]]]] : f \in orders}

convex_fusion(vector_results, bm25_results, vec_weight, bm25_weight) ==
    SortedDescending(combined(normalize_scores(vector_results),
                              normalize_scores(bm25_results),
                              vec_weight, bm25_weight))

ConvexFusion ==
    /\ ret = <<>>
    /\ \E fused \in convex_fusion(arg[1], arg[2], VecWeight, Bm25Weight) :
          ret' = <<fused>>
    /\ UNCHANGED <<storeVars, lockVars, task, last, nextId, lastIngest, wrote,
                   fails, queueVars, vectors, inserted, arg, initVars>>

InitFusion ==
    /\ Start
    /\ arg \in FusionLists \X FusionLists
    /\ ret = <<>>

NextFusion == ConvexFusion

SpecFusion == InitFusion /\ [][NextFusion]_vars

\* The min-max normalized score of entry k.
Normalized(scores, k) ==
    IF Lowest(scores) = Highest(scores) THEN One
    ELSE ((scores[k].score - Lowest(scores)) * One)
             \div (Highest(scores) - Lowest(scores))

\* The normalized score of id in a list, 0 if absent (the sum over its
\* entries if it is there more than once).
RECURSIVE ScoreIn(_, _, _)
ScoreIn(scores, id, k) ==
    IF k = 0 THEN 0
    ELSE ScoreIn(scores, id, k - 1)
         + (IF scores[k].id = id THEN Normalized(scores, k) ELSE 0)

UniqueIds(scores) ==
    \A i, j \in 1..Len(scores) : scores[i].id = scores[j].id => i = j

\* C25: convex_fusion returns every id of either list exactly once, with
\* 0.8 x its normalized vector score + 0.2 x its normalized keyword score
\* (0 for a list it is not in), highest score first; with unique ids in
\* each list the scores are within [0, 1] and a keyword-only id has at most
\* 0.2.
C25_ConvexFusion ==
    ret # <<>> =>
        LET vec == arg[1]
            kw == arg[2]
            out == ret[1]
        IN  /\ IdsOf(out) = IdsOf(vec) \cup IdsOf(kw)
            /\ UniqueIds(out)
            /\ \A k \in 1..Len(out) :
                  out[k].score = VecWeight * ScoreIn(vec, out[k].id, Len(vec))
                                 + Bm25Weight * ScoreIn(kw, out[k].id, Len(kw))
            /\ \A k \in 1..(Len(out) - 1) : out[k].score >= out[k + 1].score
            /\ (UniqueIds(vec) /\ UniqueIds(kw)) =>
                  \A k \in 1..Len(out) :
                      /\ out[k].score >= 0
                      /\ out[k].score <= (VecWeight + Bm25Weight) * One
                      /\ out[k].id \notin IdsOf(vec) => out[k].score <= Bm25Weight * One

\* An id of both lists, a vector-only id and a keyword-only id were fused,
\* the keyword-only one with exactly 0.2.
C25_Witness ==
    /\ ret # <<>>
    /\ UniqueIds(arg[1]) /\ UniqueIds(arg[2])
    /\ IdsOf(arg[1]) \cap IdsOf(arg[2]) # {}
    /\ IdsOf(arg[1]) \ IdsOf(arg[2]) # {}
    /\ \E k \in 1..Len(ret[1]) :
           /\ ret[1][k].id \notin IdsOf(arg[1])
           /\ ret[1][k].score = Bm25Weight * One

----------------------------------------------------------------------------
(* Eywa::search: which candidates can be returned *)

\* The position in the fused list of the k-th returned result.
Returned(k) == ret[1].results[k].id

----------------------------------------------------------------------------
(* TextChunker, PdfChunker and ChunkerRegistry::chunk *)

OVERLAP == 200

\* Pieces of a text document between "\n\n" separators.
MaxParas == 4

\* A text document is the sequence of the pieces that split("\n\n") yields,
\* a piece is its kind: whitespace only, or a paragraph without surrounding
\* whitespace that is tiny (below MIN_CHUNK), short (below OVERLAP), long, or
\* huge (above TARGET_SIZE).
ParaKinds == {"blank", "tiny", "short", "long", "huge"}

\* piece.len() for each kind; a blank piece trims to the empty string.
ParaLen == [blank |-> 30, tiny |-> 40, short |-> 150, long |-> 1400, huge |-> 1600]

TextDocuments == UNION {[1..n -> ParaKinds] : n \in 0..MaxParas}

\* content.len() of a text document: the pieces and the "\n\n" between them.
RECURSIVE text_len(_)
text_len(doc) ==
    IF doc = <<>> THEN 0
    ELSE ParaLen[Head(doc)] + (IF Len(doc) > 1 THEN 2 ELSE 0) + text_len(Tail(doc))

\* TextChunker::split_paragraphs: the trimmed, non-empty pieces, each named
\* by its position in the document.
split_paragraphs(doc) ==
    SelectSeq([k \in 1..Len(doc) |-> k], LAMBDA k : doc[k] # "blank")

\* current_chunk.len(): the paragraphs of the chunk joined by "\n\n".
joined_len(doc, current_chunk) ==
    text_len([k \in 1..Len(current_chunk) |-> doc[current_chunk[k]]])

\* The loop of TextChunker::chunk over the paragraphs, and the last chunk.
\* A chunk is the sequence of the paragraphs pushed onto it.
RECURSIVE text_from(_, _, _, _)
text_from(doc, paragraphs, current_chunk, chunks) ==
    IF paragraphs = <<>>
    THEN IF joined_len(doc, current_chunk) >= MIN_CHUNK
         THEN Append(chunks, current_chunk)
         ELSE chunks
    ELSE LET para == Head(paragraphs)
             para_with_sep == IF current_chunk = <<>> THEN ParaLen[doc[para]]
                              ELSE 2 + ParaLen[doc[para]]
             exceeds == /\ joined_len(doc, current_chunk) + para_with_sep > TARGET_SIZE
                        /\ current_chunk # <<>>
             pushed == IF exceeds /\ joined_len(doc, current_chunk) >= MIN_CHUNK
                       THEN Append(chunks, current_chunk)
                       ELSE chunks
             kept == IF ~exceeds THEN current_chunk
                     ELSE IF ParaLen[doc[para]] < OVERLAP THEN <<para>>
                     ELSE <<>>
         IN  text_from(doc, Tail(paragraphs),
                       IF kept = <<>> THEN <<para>> ELSE Append(kept, para),
                       pushed)

\* TextChunker::chunk
text_chunk(doc) ==
    IF split_paragraphs(doc) = <<>> THEN <<>>
    ELSE text_from(doc, split_paragraphs(doc), <<>>, <<>>)

\* What is observed of the chunks of a markdown document: the length of the
\* content and whether it is the whole document.
MarkdownChunks(doc, chunks) ==
    [k \in 1..Len(chunks) |->
        [bytes |-> len(chunks[k].content), whole |-> chunks[k].content = doc,
         paras |-> <<>>]]

\* What is observed of the chunks of a text document: the length of the
\* content, whether it is the whole document, and its paragraphs.
TextChunks(doc, chunks) ==
    [k \in 1..Len(chunks) |->
        [bytes |-> joined_len(doc, chunks[k]),
         whole |-> chunks[k] = [j \in 1..Len(doc) |-> j],
         paras |-> chunks[k]]]

\* The chunks before MarkdownChunker::chunk looks whether there are none.
markdown_sections(doc) ==
    IF trim_is_empty(doc) THEN <<>> ELSE chunks_of(split_into_sections(doc))

\* PdfChunker::chunk
pdf_chunk(doc) == chunk(doc)

\* ChunkerRegistry::chunk: normal is what the splitting emitted, chunks what
\* the chunker returned.
registry_chunk(ext, doc) ==
    IF ext = "md"
    THEN [normal |-> MarkdownChunks(doc, markdown_sections(doc)),
          chunks |-> MarkdownChunks(doc, chunk(doc))]
    ELSE IF ext = "pdf"
    THEN [normal |-> MarkdownChunks(doc, markdown_sections(doc)),
          chunks |-> MarkdownChunks(doc, pdf_chunk(doc))]
    ELSE [normal |-> TextChunks(doc, text_chunk(doc)),
          chunks |-> TextChunks(doc, text_chunk(doc))]

RegistryChunk ==
    /\ ret = <<>>
    /\ ret' = <<registry_chunk(arg.ext, arg.doc)>>
    /\ UNCHANGED <<storeVars, lockVars, task, last, nextId, lastIngest, wrote, fails,
                   queueVars, vectors, inserted, arg, initVars>>

InitRegistry ==
    /\ Start
    /\ arg \in [ext : {"md", "pdf"}, doc : Documents]
                \cup [ext : {"txt"}, doc : TextDocuments]
    /\ ret = <<>>

NextRegistry == RegistryChunk

SpecRegistry == InitRegistry /\ [][NextRegistry]_vars

\* content.len() of the document handed to the registry.
ContentLen == IF arg.ext = "txt" THEN text_len(arg.doc) ELSE len(arg.doc)

\* C27: for every chunker, no emitted chunk is shorter than MIN_CHUNK, and
\* when the normal splitting of a document emits no chunk at all although the
\* document is at least MIN_CHUNK bytes long, exactly one chunk holding the
\* full content is emitted.
C27_NoShortChunkAndWholeDocumentFallback ==
    ret # <<>> =>
        /\ \A k \in 1..Len(ret[1].chunks) : ret[1].chunks[k].bytes >= MIN_CHUNK
        /\ (ret[1].normal = <<>> /\ ContentLen >= MIN_CHUNK) =>
               (Len(ret[1].chunks) = 1 /\ ret[1].chunks[1].whole)

----------------------------------------------------------------------------
(* MarkdownChunker: the header context of a chunk *)

\* The context after walking the lines k..upto of a document: an H1 sets the
\* title and clears section and subsection, an H2 sets the section and clears
\* the subsection, an H3 sets the subsection; lines inside a fenced code
\* block change nothing.
RECURSIVE WalkedContext(_, _, _, _, _)
WalkedContext(doc, k, upto, context, in_code_block) ==
    IF k > upto \/ k > Len(doc) THEN context
    ELSE IF doc[k] = "fence"
    THEN WalkedContext(doc, k + 1, upto, context, ~in_code_block)
    ELSE IF in_code_block
    THEN WalkedContext(doc, k + 1, upto, context, in_code_block)
    ELSE WalkedContext(doc, k + 1, upto,
             CASE doc[k] = "h1" -> [title |-> k, section |-> 0, subsection |-> 0]
               [] doc[k] = "h2" -> [title |-> context.title, section |-> k,
                                    subsection |-> 0]
               [] doc[k] = "h3" -> [title |-> context.title,
                                    section |-> context.section, subsection |-> k]
               [] OTHER -> context,
             in_code_block)

\* The latest H1, H2 and H3 at or before a line.
InForce(doc, line) == WalkedContext(doc, 1, line, NoContext, FALSE)

\* C28: every emitted chunk carries the context in force for its own section,
\* the latest H1/H2/H3 at or before the chunk's first line and never a later
\* header, where an H1 sets title and clears section and subsection, an H2
\* sets section and clears subsection, an H3 sets only subsection, and
\* header-looking lines inside a fenced code block change nothing; its
\* hierarchy is the set values in the order title, section, subsection.
C28_ChunkCarriesContextInForce ==
    ret # <<>> =>
        \A k \in 1..Len(ret[1]) :
            /\ ret[1][k].context = InForce(arg, ret[1][k].line_start)
            /\ ret[1][k].hierarchy =
                   SelectSeq(<<ret[1][k].context.title, ret[1][k].context.section,
                               ret[1][k].context.subsection>>,
                             LAMBDA header : header # 0)

----------------------------------------------------------------------------
(* TextChunker: what a chunk is made of *)

\* The runs of consecutive paragraphs of a text document, in document order.
ParagraphRuns(doc) ==
    {SubSeq(split_paragraphs(doc), i, j) :
        i \in 1..Len(split_paragraphs(doc)), j \in 1..Len(split_paragraphs(doc))}
        \ {<<>>}

\* C29: every chunk emitted by the text chunker is the concatenation, joined
\* by one blank line, of consecutive paragraphs of the document in document
\* order with no paragraph appearing twice in the same chunk, and its length
\* is at most TARGET_SIZE unless it consists of a single paragraph.
C29_TextChunkIsRunOfParagraphs ==
    (ret # <<>> /\ arg.ext = "txt") =>
        \A k \in 1..Len(ret[1].chunks) :
            /\ ret[1].chunks[k].paras \in ParagraphRuns(arg.doc)
            /\ Len(ret[1].chunks[k].paras) > 1 => ret[1].chunks[k].bytes <= TARGET_SIZE

----------------------------------------------------------------------------
(* The locks: which an operation takes, in which order and mode *)

Lock(l, mode) == [act |-> "lock", lock |-> l, mode |-> mode]

Unlock(l) == [act |-> "unlock", lock |-> l, mode |-> "-"]

\* Operations of the facade, of the request handlers and of the worker.
FacadeOps == {"ingest_documents", "search", "list_documents", "get_document",
              "delete_document", "delete_source", "reset_all"}

HandlerOps == {"handle_ingest", "handle_queue", "handle_list", "handle_reset"}

WorkerOps == {"poll", "process"}

OpsOf(t) == IF t \in Callers THEN FacadeOps
            ELSE IF t = "worker" THEN WorkerOps ELSE HandlerOps

\* The search with the embedder taken in write mode.
LocksOfSearchExclusive == <<Lock("embedder", "write"), Lock("db", "read"),
                            Lock("content", "mutex")>>

\* Eywa::search: self.embedder.read(), self.db.read(), self.content.lock()
LocksOfSearch == <<Lock("embedder", "read"), Lock("db", "read"),
                   Lock("content", "mutex")>>

\* The locks an operation takes and gives back before it returns, in program
\* order; what it still holds is released when it returns.
Plan(op) ==
    CASE op = "ingest_documents" -> <<Lock("db", "write"), Lock("embedder", "read")>>
      [] op = "search"           -> LocksOfSearch
      [] op = "list_documents"   -> <<Lock("db", "read")>>
      [] op = "get_document"     -> <<Lock("db", "read"), Lock("content", "mutex")>>
      [] op = "delete_document"  -> <<Lock("db", "read"), Lock("content", "mutex")>>
      [] op = "delete_source"    -> <<Lock("db", "read"), Lock("content", "mutex")>>
      [] op = "reset_all"        -> <<Lock("db", "write"), Lock("content", "mutex")>>
      [] op = "handle_ingest"    -> <<Lock("state_db", "write")>>
      [] op = "handle_queue"     -> <<Lock("job_queue", "mutex"), Unlock("job_queue")>>
      [] op = "handle_list"      -> <<Lock("state_db", "read")>>
      [] op = "handle_reset"     -> <<Lock("state_db", "write")>>
      [] op = "poll"             -> <<Lock("job_queue", "mutex"), Unlock("job_queue"),
                                      Lock("job_queue", "mutex")>>
      [] op = "process"          -> <<Lock("job_queue", "mutex"), Unlock("job_queue"),
                                      Lock("state_db", "write"), Unlock("state_db"),
                                      Lock("job_queue", "mutex")>>
      [] OTHER                   -> <<>>

Busy(t) == coord.pc[t].op # "-"

\* The step the thread is at.
NextStep(t) == Plan(coord.pc[t].op)[coord.pc[t].k + 1]

AtStep(t, act) ==
    /\ Busy(t)
    /\ ~coord.pc[t].waiting
    /\ coord.pc[t].k < Len(Plan(coord.pc[t].op))
    /\ NextStep(t).act = act

\* tokio::sync::RwLock: readers share, a writer excludes everybody.
Compatible(l, mode) ==
    IF mode = "read" THEN \A h \in coord.held[l] : h.mode = "read"
    ELSE coord.held[l] = {}

Holds(t, l) == \E h \in coord.held[l] : h.thread = t

Advanced(t) == [coord.pc EXCEPT ![t].k = @ + 1, ![t].waiting = FALSE]

restVars == <<storeVars, lockVars, task, last, nextId, lastIngest, wrote, fails,
              queueVars, vectors, inserted, arg, ret, marker, config, reindex>>

\* A process is either a program that owns an Eywa (Eywa::new) or the server
\* (run_server builds AppState and spawns the worker); the two own separate
\* locks and share none.
Processes == {"library", "server"}

ThreadsOf(process) ==
    CASE process = "library" -> Callers
      [] process = "server"  -> ServerTasks
      [] OTHER               -> {}

Launch(process) ==
    /\ coord.process = "-"
    /\ coord' = [coord EXCEPT !.process = process]
    /\ UNCHANGED restVars

\* A call of the facade, a request to the server, or an iteration of the
\* worker's loop begins.
StartOp(t, op) ==
    /\ t \in ThreadsOf(coord.process)
    /\ ~Busy(t)
    /\ op \in OpsOf(t)
    /\ coord' = [coord EXCEPT !.pc[t] = [op |-> op, k |-> 0, waiting |-> FALSE]]
    /\ UNCHANGED restVars

\* lock.read().await or lock.write().await: taken at once when the lock is
\* compatible and nobody waits, otherwise the caller joins the queue (the
\* lock is fair: first come, first served).
LockRw(t) ==
    /\ AtStep(t, "lock")
    /\ NextStep(t).lock \in RwLocks
    /\ LET l == NextStep(t).lock
           mode == NextStep(t).mode
       IN  IF Compatible(l, mode) /\ coord.queue[l] = <<>>
           THEN coord' = [coord EXCEPT
                    !.held[l] = @ \cup {[thread |-> t, mode |-> mode]},
                    !.pc = Advanced(t)]
           ELSE coord' = [coord EXCEPT
                    !.queue[l] = Append(@, [thread |-> t, mode |-> mode]),
                    !.pc[t].waiting = TRUE]
    /\ UNCHANGED restVars

\* The first waiter of a lock gets it once it is compatible.
Grant(t) ==
    /\ Busy(t)
    /\ coord.pc[t].waiting
    /\ LET l == NextStep(t).lock
       IN  /\ coord.queue[l] # <<>>
           /\ Head(coord.queue[l]).thread = t
           /\ Compatible(l, NextStep(t).mode)
           /\ coord' = [coord EXCEPT
                  !.held[l] = @ \cup {[thread |-> t, mode |-> NextStep(t).mode]},
                  !.queue[l] = Tail(@),
                  !.pc = Advanced(t)]
    /\ UNCHANGED restVars

\* mutex.lock().unwrap(): blocks the thread while somebody holds the mutex.
LockMutex(t) ==
    /\ AtStep(t, "lock")
    /\ NextStep(t).lock \in Mutexes
    /\ coord.held[NextStep(t).lock] = {}
    /\ coord' = [coord EXCEPT
           !.held[NextStep(t).lock] = {[thread |-> t, mode |-> "mutex"]},
           !.pc = Advanced(t)]
    /\ UNCHANGED restVars

\* The end of the block that holds the guard.
UnlockStep(t) ==
    /\ AtStep(t, "unlock")
    /\ coord' = [coord EXCEPT
           !.held[NextStep(t).lock] = {h \in @ : h.thread # t},
           !.pc = Advanced(t)]
    /\ UNCHANGED restVars

Released(t) == [l \in Locks |-> {h \in coord.held[l] : h.thread # t}]

\* The operation returns; the guards it holds are dropped.
ReturnOp(t) ==
    /\ Busy(t)
    /\ ~coord.pc[t].waiting
    /\ coord.pc[t].k = Len(Plan(coord.pc[t].op))
    /\ coord' = [coord EXCEPT !.held = Released(t), !.pc[t] = NoOp]
    /\ UNCHANGED restVars

\* A store call fails, or there is nothing to do: the operation returns
\* before it has taken all its locks; the guards it holds are dropped.
ReturnEarly(t) ==
    /\ Busy(t)
    /\ ~coord.pc[t].waiting
    /\ coord.pc[t].k > 0
    /\ coord.pc[t].k < Len(Plan(coord.pc[t].op))
    /\ coord' = [coord EXCEPT !.held = Released(t), !.pc[t] = NoOp]
    /\ UNCHANGED restVars

\* The steps a thread takes by itself once its operation has begun.
Advance(t) == LockRw(t) \/ Grant(t) \/ LockMutex(t) \/ UnlockStep(t) \/ ReturnOp(t)

NextLocks ==
    \/ \E process \in Processes : Launch(process)
    \/ \E t \in Threads :
        \/ \E op \in OpsOf(t) : StartOp(t, op)
        \/ LockRw(t)
        \/ Grant(t)
        \/ LockMutex(t)
        \/ UnlockStep(t)
        \/ ReturnOp(t)
        \/ ReturnEarly(t)

\* Every thread keeps running; a thread that waits for a mutex gets it when
\* the mutex is free again and again.
FairLocks == \A t \in Threads : WF_vars(Advance(t)) /\ SF_vars(LockMutex(t))

SpecLocks == Init /\ [][NextLocks]_vars /\ FairLocks

\* The order the claim gives to the locks of the facade.
LockRank == [embedder |-> 1, db |-> 2, content |-> 3]

\* The lock steps of its operation a thread has taken or is waiting at.
Taken(t) ==
    {i \in 1..Len(Plan(coord.pc[t].op)) :
        /\ Plan(coord.pc[t].op)[i].act = "lock"
        /\ \/ i <= coord.pc[t].k
           \/ i = coord.pc[t].k + 1 /\ coord.pc[t].waiting}

\* A caller of the facade takes its locks in the order embedder lock, Vector
\* Index lock, Content Store mutex.
TakenInOrder(t) ==
    \A i, j \in Taken(t) :
        i < j => LockRank[Plan(coord.pc[t].op)[i].lock]
                     < LockRank[Plan(coord.pc[t].op)[j].lock]

\* A thread that holds the job-queue mutex waits for no lock and is not about
\* to take one.
JobQueueNotHeldWhileWaiting ==
    \A t \in Threads :
        Holds(t, "job_queue") => ~coord.pc[t].waiting /\ ~AtStep(t, "lock")

\* The embedder lock is only taken in read mode, and nobody waits for it.
EmbedderOnlyRead ==
    /\ \A h \in coord.held["embedder"] : h.mode = "read"
    /\ coord.queue["embedder"] = <<>>

\* A thread that holds the Content Store mutex holds the Vector Index lock
\* and takes no further lock.
VectorBeforeContent ==
    \A t \in Threads :
        Holds(t, "content") =>
            Holds(t, "db") /\ ~coord.pc[t].waiting /\ ~AtStep(t, "lock")

====
